---- MODULE Spec2Model ----
(***************************************************************************)
(* Model of the Telegram summary bot: the schedules / summary_logs tables  *)
(* of Database (src/database.js), the on-demand /summary handler of        *)
(* CommandHandler and the Scheduler daemon.                                *)
(*                                                                         *)
(* Time is counted in whole hours since the Unix epoch (hour 0 is          *)
(* Thursday 00:00 UTC).  Every SQL statement is one atomic step; a handler *)
(* is suspended between the statements it awaits, and other handlers run   *)
(* in between.  An await on a promise that is already settled suspends the *)
(* handler only until the microtask queue is drained: no timer, storage or *)
(* network callback runs before it resumes (variable microtask).           *)
(***************************************************************************)
EXTENDS Integers, Sequences, FiniteSets, TLC

----------------------------------------------------------------------------
(* Bounds of the model *)

MaxId == 3          \* rows the schedules table may ever receive
MaxNow == 40        \* the clock stops advancing here
ClockStep == 24     \* hours the clock advances in one step
StartHour == 8      \* hour at which the model starts (Thursday 08:00 UTC)

MaxRequests == 3    \* /summary requests received in one run
MaxLen == 250       \* messages handed to one SummaryService call
MaxMs == 1200       \* the millisecond clock stops advancing here
MsStep == 400       \* milliseconds the clock advances in one step
MaxHour == 200      \* latest hour at which a next-run time is computed
Span == 2           \* milliseconds around an instant from which the clock starts
MaxElapsed == 1     \* milliseconds passing between two clock reads of one call
Reqs == {1, 2}                  \* /summary requests that may be in flight
Chats == {1, 2}                 \* chat ids (Telegram chat ids are never 0)
Callers == {"a", "b"}           \* Database API calls that may be in flight

----------------------------------------------------------------------------
(* Values *)

NoRow == [absent |-> TRUE]
Timezones == {"UTC", "Asia/Tokyo"}
ScheduleOptions ==
  { [scheduleType |-> "daily",  intervalHours |-> 24],
    [scheduleType |-> "weekly", intervalHours |-> 168],
    [scheduleType |-> "custom", intervalHours |-> 72] }

VARIABLES
  now,            \* wall clock, hours since the epoch
  schedules,      \* table schedules: a set of rows
  nextId,         \* AUTOINCREMENT counter of table schedules
  chat_settings,  \* table chat_settings: chat -> row or NoRow
  call,           \* Database.createSchedule calls in flight, per caller
  hist,           \* the Database API call that completed last
  summary_logs,   \* table summary_logs: <<chat, date>> -> summary_count (0: no row)
  messages,       \* table messages: a set of rows
  req,            \* /summary requests (CommandHandler.handleSummary), per slot
  requests,       \* number of /summary requests received so far
  isRunning,      \* Scheduler.isRunning
  intervalId,     \* Scheduler.intervalId (0: null)
  liveTimers,     \* the interval timers that are set and not cleared
  tick,           \* Scheduler.processPendingSchedules executions, per slot
  microtask,      \* the execution resumed by the microtask queue (0: queue empty)
  unreachable,    \* chats Telegram no longer delivers to (chat not found)
  lastCall,       \* the last Scheduler.start / stop call and what it changed
  lastRun,        \* the last processSchedule execution that ended
  lastTick,       \* the last processPendingSchedules execution that ended
  gen,            \* SummaryService calls in flight, per slot
  files,          \* the files of the logs directory
  ms,             \* wall clock of the summary service, milliseconds
  computed,       \* the last computation of a pure function: its inputs and its result
  BOT_OWNER_ID,   \* process.env.BOT_OWNER_ID
  lastCommand     \* the last configuration command handled, and what it changed

apiVars == <<call, hist>>
summaryVars == <<summary_logs, messages, req, requests>>
daemonVars == <<isRunning, intervalId, liveTimers, tick, microtask, unreachable,
                lastCall, lastRun, lastTick>>
serviceVars == <<gen, files, ms, computed>>
commandVars == <<BOT_OWNER_ID, lastCommand>>
outsideDb == <<summary_logs, messages, req, requests, daemonVars, serviceVars, commandVars>>
vars == <<now, schedules, nextId, chat_settings, call, hist,
          summary_logs, messages, req, requests,
          isRunning, intervalId, liveTimers, tick, microtask, unreachable,
          lastCall, lastRun, lastTick, gen, files, ms, computed,
          BOT_OWNER_ID, lastCommand>>

----------------------------------------------------------------------------
(* moment-timezone, at the resolution of one hour *)

TzOffset(tz) == IF tz = "Asia/Tokyo" THEN 9 ELSE 0
LocalHour(t, tz) == (t + TzOffset(tz)) % 24
LocalDay(t, tz) == (4 + ((t + TzOffset(tz)) \div 24)) % 7      \* 0 = Sunday
StartOfDay(t, tz) == t - LocalHour(t, tz)

----------------------------------------------------------------------------
(* Database: chat_settings *)

DefaultSettings == [language |-> "en", summary_length |-> 1500, timezone |-> "UTC"]

getChatSettings(settings, chatId) ==
  IF settings[chatId] = NoRow THEN DefaultSettings ELSE settings[chatId]

\* INSERT OR REPLACE with COALESCE((SELECT <field> ...), <default>) for the
\* fields the call does not set
setChatLanguageRow(settings, chatId, language) ==
  [language |-> language,
   summary_length |-> getChatSettings(settings, chatId).summary_length,
   timezone |-> getChatSettings(settings, chatId).timezone]

setSummaryLengthReplacesRow(settings, chatId, length) ==
  [DefaultSettings EXCEPT !.summary_length = length]

setSummaryLengthRow(settings, chatId, length) ==
  [language |-> getChatSettings(settings, chatId).language,
   summary_length |-> length,
   timezone |-> getChatSettings(settings, chatId).timezone]

setChatTimezoneRow(settings, chatId, timezone) ==
  [language |-> getChatSettings(settings, chatId).language,
   summary_length |-> getChatSettings(settings, chatId).summary_length,
   timezone |-> timezone]

clearChatHistory(rows, chatId) == { m \in rows : m.chat_id # chatId }

----------------------------------------------------------------------------
(* Database: schedules *)

calculateNextScheduleTimeToday(scheduleType, intervalHours, timezone, t) ==
  IF scheduleType = "daily"
  THEN StartOfDay(t, timezone) + 9
  ELSE IF scheduleType = "weekly"
  THEN StartOfDay(t, timezone) - 24 * LocalDay(t, timezone) + 9
  ELSE t + intervalHours

calculateNextScheduleTime(scheduleType, intervalHours, timezone, t) ==
  IF scheduleType = "daily"
  THEN StartOfDay(t, timezone) + 9
         + (IF LocalHour(t, timezone) >= 9 THEN 24 ELSE 0)
  ELSE IF scheduleType = "weekly"
  THEN StartOfDay(t, timezone) - 24 * LocalDay(t, timezone) + 9
         + (IF LocalDay(t, timezone) > 0
               \/ (LocalDay(t, timezone) = 0 /\ LocalHour(t, timezone) >= 9)
            THEN 168 ELSE 0)
  ELSE t + intervalHours

deleteScheduleInactiveOnly(rows, chatId) ==
  { r \in rows : ~(r.chat_id = chatId /\ r.is_active = 0) }

deleteSchedule(rows, chatId) == { r \in rows : r.chat_id # chatId }

insertSchedule(rows, id, chatId, scheduleType, intervalHours, nextRun) ==
  rows \cup { [id |-> id, chat_id |-> chatId, schedule_type |-> scheduleType,
               interval_hours |-> intervalHours, next_run |-> nextRun,
               is_active |-> 1] }

updateScheduleNextRunReactivates(rows, scheduleId, nextRun) ==
  { IF r.id = scheduleId THEN [r EXCEPT !.next_run = nextRun, !.is_active = 1] ELSE r
    : r \in rows }

updateScheduleNextRunUpserts(rows, scheduleId, nextRun) ==
  IF \E r \in rows : r.id = scheduleId
  THEN { IF r.id = scheduleId THEN [r EXCEPT !.next_run = nextRun] ELSE r : r \in rows }
  ELSE rows \cup { [id |-> scheduleId, chat_id |-> 1, schedule_type |-> "daily",
                    interval_hours |-> 24, next_run |-> nextRun, is_active |-> 1] }

updateScheduleNextRun(rows, scheduleId, nextRun) ==
  { IF r.id = scheduleId THEN [r EXCEPT !.next_run = nextRun] ELSE r : r \in rows }

deactivateSchedule(rows, scheduleId) ==
  { IF r.id = scheduleId THEN [r EXCEPT !.is_active = 0] ELSE r : r \in rows }

getActiveSchedules(rows, chatId) ==
  { r \in rows : r.is_active = 1 /\ r.chat_id = chatId }

getPendingSchedules(rows, t) ==
  { r \in rows : r.is_active = 1 /\ r.next_run <= t }

----------------------------------------------------------------------------
(* History: the Database API call that completed last, and whether the call  *)
(* that completed just before it was a createSchedule for the same chat      *)

NoEntry == [op |-> "none", chatId |-> 0, scheduleType |-> "", intervalHours |-> 0,
            ok |-> TRUE, twice |-> FALSE]

Entry(h, op, chatId, scheduleType, intervalHours, ok) ==
  [op |-> op, chatId |-> chatId, scheduleType |-> scheduleType,
   intervalHours |-> intervalHours, ok |-> ok,
   twice |-> (op = "createSchedule" /\ h.op = "createSchedule" /\ h.chatId = chatId)]

IdleCall == [pc |-> "idle", chatId |-> 0, scheduleType |-> "", intervalHours |-> 0,
             nextRun |-> 0]

FreeCaller == CHOOSE p \in Callers : call[p].pc = "idle"
NoCallInFlight == \A p \in Callers : call[p].pc = "idle"
InFlight == Cardinality({ p \in Callers : call[p].pc # "idle" })

----------------------------------------------------------------------------
(* Database.createSchedule: DELETE, awaited settings read, INSERT *)

\* the call: deleteSchedule(chatId) is issued
CreateScheduleCall(p, chatId, opt) ==
  /\ microtask = 0
  /\ call[p].pc = "idle"
  /\ p = FreeCaller
  /\ nextId + InFlight <= MaxId
  /\ call' = [call EXCEPT ![p] = [pc |-> "delete", chatId |-> chatId,
                                  scheduleType |-> opt.scheduleType,
                                  intervalHours |-> opt.intervalHours,
                                  nextRun |-> 0]]
  /\ UNCHANGED <<now, schedules, nextId, chat_settings, hist>>
  /\ UNCHANGED outsideDb

Reject(p) ==
  /\ call' = [call EXCEPT ![p] = IdleCall]
  /\ hist' = Entry(hist, "createSchedule", call[p].chatId,
                                call[p].scheduleType, call[p].intervalHours, FALSE)

\* the DELETE runs; on success getChatSettings(chatId) is issued
CreateScheduleDelete(p) ==
  /\ UNCHANGED outsideDb
  /\ microtask = 0
  /\ call[p].pc = "delete"
  /\ \E err \in BOOLEAN :
       IF err
       THEN Reject(p) /\ UNCHANGED <<now, schedules, nextId, chat_settings>>
       ELSE /\ schedules' = deleteSchedule(schedules, call[p].chatId)
            /\ call' = [call EXCEPT ![p].pc = "settings"]
            /\ UNCHANGED <<now, nextId, chat_settings, hist>>

\* the SELECT runs; on success next_run is computed from the clock and the
\* INSERT is issued
CreateScheduleSettings(p) ==
  /\ UNCHANGED outsideDb
  /\ microtask = 0
  /\ call[p].pc = "settings"
  /\ \E err \in BOOLEAN :
       IF err
       THEN Reject(p) /\ UNCHANGED <<now, schedules, nextId, chat_settings>>
       ELSE /\ call' = [call EXCEPT ![p].pc = "insert",
                          ![p].nextRun = calculateNextScheduleTime(
                             call[p].scheduleType, call[p].intervalHours,
                             getChatSettings(chat_settings, call[p].chatId).timezone,
                             now)]
            /\ UNCHANGED <<now, schedules, nextId, chat_settings, hist>>

\* the INSERT runs
CreateScheduleInsert(p) ==
  /\ UNCHANGED outsideDb
  /\ microtask = 0
  /\ call[p].pc = "insert"
  /\ \E err \in BOOLEAN :
       IF err
       THEN Reject(p) /\ UNCHANGED <<now, schedules, nextId, chat_settings>>
       ELSE /\ schedules' = insertSchedule(schedules, nextId, call[p].chatId,
                               call[p].scheduleType, call[p].intervalHours,
                               call[p].nextRun)
            /\ nextId' = nextId + 1
            /\ call' = [call EXCEPT ![p] = IdleCall]
            /\ hist' = Entry(hist, "createSchedule", call[p].chatId,
                                call[p].scheduleType, call[p].intervalHours, TRUE)
            /\ UNCHANGED <<now, chat_settings>>

----------------------------------------------------------------------------
(* The single-statement Database calls *)

\* (a statement that fails changes nothing and is a stuttering step)
DeleteScheduleCall(chatId) ==
  /\ microtask = 0
  /\ schedules' = deleteSchedule(schedules, chatId)
  /\ hist' = Entry(hist, "deleteSchedule", chatId, "", 0, TRUE)
  /\ UNCHANGED <<now, nextId, chat_settings, call>>
  /\ UNCHANGED outsideDb

DeactivateScheduleCall(scheduleId) ==
  /\ schedules' = deactivateSchedule(schedules, scheduleId)
  /\ hist' = Entry(hist, "deactivateSchedule", 0, "", 0, TRUE)
  /\ UNCHANGED <<now, nextId, chat_settings, call>>
  /\ UNCHANGED outsideDb

UpdateScheduleNextRunCall(scheduleId, nextRun) ==
  /\ schedules' = updateScheduleNextRun(schedules, scheduleId, nextRun)
  /\ hist' = Entry(hist, "updateScheduleNextRun", 0, "", 0, TRUE)
  /\ UNCHANGED <<now, nextId, chat_settings, call>>
  /\ UNCHANGED outsideDb

AdvanceClock ==
  /\ now + ClockStep <= MaxNow
  /\ now' = now + ClockStep
  /\ UNCHANGED <<schedules, nextId, chat_settings, call, hist>>
  /\ UNCHANGED <<summary_logs, messages, req, requests, daemonVars, serviceVars,
               commandVars>>

----------------------------------------------------------------------------
(* JavaScript values handed to SummaryService.generateSummary *)

Undefined == -1                       \* the .length of a value that has none
JsNumber(n) == [type |-> "number", value |-> n, length |-> Undefined]
JsArray(n) == [type |-> "array", value |-> 1, length |-> n]
JsUndefined == [type |-> "undefined", value |-> 0, length |-> Undefined]
Falsy(v) == (v.type = "number" /\ v.value = 0) \/ v.type = "undefined"

\* SummaryService.generateSummary up to its first await:
\*   "null"  : !messages || messages.length === 0, returns null
\*   "throw" : messages.filter is not a function (formatMessagesForAI); the
\*             catch rethrows 'Failed to generate summary. Please try again later.'
\*   "llm"   : the language model is called
generateSummaryNoEmptyCheck(msgs) ==
  IF Falsy(msgs) THEN "null"
  ELSE IF msgs.type # "array" THEN "throw"
  ELSE "llm"

generateSummaryUnderstandsIds(msgs) ==
  IF Falsy(msgs) \/ msgs.length = 0 THEN "null" ELSE "llm"

generateSummary(msgs) ==
  IF Falsy(msgs) \/ msgs.length = 0 THEN "null"
  ELSE IF msgs.type # "array" THEN "throw"
  ELSE "llm"

LlmOutcomes == {"ok", "capacity", "other"}

----------------------------------------------------------------------------
(* Database: summary_logs and messages *)

DAILY_LIMIT == 10

IdleReq == [pc |-> "idle", chatId |-> 0, today |-> 0, dailyCount |-> Undefined,
            start |-> 0, end |-> 0, incremented |-> 0, fetched |-> FALSE,
            llmCalls |-> 0, sent |-> "none", sends |-> 0]

Dates == 0..(MaxNow \div 24)
Date(t) == t \div 24                  \* new Date().toISOString().split('T')[0]

getDailySummaryCount(logs, chatId, today) == logs[<<chatId, today>>]

incrementSummaryCountByTwo(logs, chatId, today) ==
  [logs EXCEPT ![<<chatId, today>>] = @ + 2]

incrementSummaryCount(logs, chatId, today) ==
  [logs EXCEPT ![<<chatId, today>>] = @ + 1]

getMessages(rows, chatId, startTime, endTime) ==
  { m \in rows : m.chat_id = chatId /\ m.timestamp >= startTime /\ m.timestamp <= endTime }

saveMessage(rows, chatId, timestamp) ==
  rows \cup { [chat_id |-> chatId, timestamp |-> timestamp] }

\* CommandHandler.parseTimePeriod for the tokens <N><unit>
PeriodHours(period) ==
  IF period = "3d" THEN 72 ELSE IF period = "1w" THEN 168 ELSE 24
parseTimePeriod(period, t) == [start |-> t - PeriodHours(period), end |-> t]

----------------------------------------------------------------------------
(* Scheduler: state *)

Ticks == {1, 2}                 \* processPendingSchedules executions in flight

\* a SummaryService call that is not in flight
IdleGen == [pc |-> "idle", input |-> <<>>, mode |-> "none",
            chunks |-> <<>>, i |-> 0, calls |-> <<>>, failed |-> "none", fsFailed |-> FALSE,
            content |-> <<>>, reported |-> 0, filename |-> Undefined, wrote |-> 0,
            result |-> "none"]

Gens == {1, 2}
NoComputation == [fn |-> "none"]

NoServiceCalls ==
  /\ gen = [g \in Gens |-> IdleGen]
  /\ files = {}
  /\ ms = 0
  /\ computed = NoComputation

\* what one processSchedule execution did, kept until it ends; error is
\*   "input"              generateSummary rejected before it called the model
\*   "llm"                the language-model call failed
\*   "delivery"           sendMessage failed, the chat still exists
\*   "delivery_permanent" sendMessage failed, chat not found
\*   "storage"            a storage call of the rescheduling failed
NoRun == [id |-> 0, chat |-> 0, tick |-> 0, hadMessages |-> FALSE, chatGone |-> FALSE,
          fetched |-> FALSE, llmCalls |-> 0, sent |-> FALSE, error |-> "none",
          updated |-> FALSE, deactivated |-> FALSE,
          rowActive |-> Undefined, nextRunBefore |-> 0, nextRunAfter |-> 0]

IdleTick == [pc |-> "idle", pending |-> <<>>, i |-> 0, entry |-> "none", nextRun |-> 0,
             failed |-> 0, overlapped |-> FALSE, run |-> NoRun]

NoTick == [due |-> 0, started |-> 0, failed |-> 0, aborted |-> FALSE]
NoSchedulerCall == [op |-> "none", bit |-> 0, wasRunning |-> FALSE, newTimers |-> 0,
                    newTicks |-> 0, changed |-> FALSE]

SchedulerIdle ==
  /\ isRunning = FALSE
  /\ intervalId = 0
  /\ liveTimers = {}
  /\ tick = [k \in Ticks |-> IdleTick]
  /\ microtask = 0
  /\ unreachable = {}
  /\ lastCall = NoSchedulerCall
  /\ lastRun = NoRun
  /\ lastTick = NoTick

\* process.env.BOT_OWNER_ID: not set, or the string it is set to
EnvUnset == [set |-> FALSE, value |-> <<>>]
Env(str) == [set |-> TRUE, value |-> str]

NoSender == [id |-> 0, status |-> "", can_manage_chat |-> FALSE]
\* arg is the command's argument when it is a code, text when it is free
\* text, length the number handed to setSummaryLength
NoCommand == [cmd |-> "none", chatId |-> 0, from |-> NoSender, given |-> FALSE,
              arg |-> "", text |-> <<>>, length |-> Undefined, outcome |-> "none",
              changed |-> FALSE]

NoCommands ==
  /\ BOT_OWNER_ID = EnvUnset
  /\ lastCommand = NoCommand

DaemonConstructed == SchedulerIdle /\ NoCommands

SchedulerConstructed == DaemonConstructed /\ NoServiceCalls

----------------------------------------------------------------------------
(* The Database API under any client *)

DbEmpty ==
  /\ schedules = {}
  /\ nextId = 1
  /\ chat_settings = [c \in Chats |-> NoRow]
  /\ call = [p \in Callers |-> IdleCall]
  /\ hist = NoEntry

NoSummaryRequests ==
  /\ summary_logs = [k \in Chats \X Dates |-> 0]
  /\ messages = {}
  /\ req = [r \in Reqs |-> IdleReq]
  /\ requests = 0

InitDb ==
  /\ now = StartHour
  /\ DbEmpty
  /\ NoSummaryRequests
  /\ SchedulerConstructed

CreateScheduleStep ==
  \E p \in Callers :
    \/ CreateScheduleDelete(p)
    \/ CreateScheduleSettings(p)
    \/ CreateScheduleInsert(p)

ApiCall ==
  \/ \E p \in Callers, c \in Chats, opt \in ScheduleOptions : CreateScheduleCall(p, c, opt)
  \/ \E c \in Chats : DeleteScheduleCall(c)
  \/ \E id \in 1..MaxId : DeactivateScheduleCall(id)
  \/ \E id \in 1..MaxId : UpdateScheduleNextRunCall(id, now + ClockStep)

\* calls may overlap
NextDb == ApiCall \/ CreateScheduleStep \/ AdvanceClock
SpecDb == InitDb /\ [][NextDb]_vars

\* calls run one at a time: a call starts only when no call is in flight
NextDbSeq == (NoCallInFlight /\ ApiCall) \/ CreateScheduleStep \/ (NoCallInFlight /\ AdvanceClock)
SpecDbSeq == InitDb /\ [][NextDbSeq]_vars

----------------------------------------------------------------------------
(* CommandHandler.handleSummary, one /summary request per slot *)

QuotaReachedOffByOne(dailyCount) == dailyCount > DAILY_LIMIT
QuotaReached(dailyCount) == dailyCount >= DAILY_LIMIT

NoRequestInFlight == \A r \in Reqs : req[r].pc = "idle"
FreeReq == CHOOSE r \in Reqs : req[r].pc = "idle"

outsideSummary == <<schedules, nextId, chat_settings, call, hist, daemonVars, serviceVars,
                    commandVars>>

\* the request ends with one message sent to the chat
Reply(r, text) ==
  req' = [req EXCEPT ![r].pc = "idle", ![r].sent = text, ![r].sends = 1]

\* the catch of handleSummary reads t, which is declared by const inside the
\* try block: the read raises a ReferenceError before sendMessage is called,
\* and handleSummary rejects
handleSummaryCatch == [sends |-> 0, rejects |-> TRUE]

dispatchCatchSilent(rejects) == 0

\* the catch around `await this.commandHandler.handleSummary(...)`
dispatchCatch(rejects) == IF rejects THEN 1 ELSE 0

\* a rejected await inside the try block of handleSummary
Failed(r) ==
  req' = [req EXCEPT ![r].pc = "idle", ![r].sent = "error",
                     ![r].sends = handleSummaryCatch.sends
                                  + dispatchCatch(handleSummaryCatch.rejects)]

\* /summary arrives: typing indicator, getChatSettings is issued
HandleSummary(r, chatId) ==
  /\ req[r].pc = "idle"
  /\ r = FreeReq
  /\ requests < MaxRequests
  /\ requests' = requests + 1
  /\ req' = [req EXCEPT ![r] = [IdleReq EXCEPT !.pc = "settings", !.chatId = chatId]]
  /\ UNCHANGED <<now, summary_logs, messages>>
  /\ UNCHANGED outsideSummary

\* settings are read; getDailySummaryCount is issued for today's date
SummarySettings(r) ==
  /\ req[r].pc = "settings"
  /\ \E err \in BOOLEAN :
       IF err THEN Failed(r)
       ELSE req' = [req EXCEPT ![r].pc = "count", ![r].today = Date(now)]
  /\ UNCHANGED <<now, summary_logs, messages, requests>>
  /\ UNCHANGED outsideSummary

\* the count is read: at the limit the request is rejected, below it
\* incrementSummaryCount is issued for today's date
SummaryCount(r) ==
  /\ req[r].pc = "count"
  /\ \E err \in BOOLEAN :
       IF err THEN Failed(r)
       ELSE LET dailyCount == getDailySummaryCount(summary_logs, req[r].chatId,
                                                   req[r].today)
            IN IF QuotaReached(dailyCount)
               THEN req' = [req EXCEPT ![r].pc = "idle", ![r].sent = "limit",
                                       ![r].sends = 1,
                                       ![r].dailyCount = dailyCount]
               ELSE req' = [req EXCEPT ![r].pc = "increment",
                                       ![r].dailyCount = dailyCount,
                                       ![r].today = Date(now)]
  /\ UNCHANGED <<now, summary_logs, messages, requests>>
  /\ UNCHANGED outsideSummary

\* the upsert runs; the window is computed and getMessages is issued
SummaryIncrement(r) ==
  /\ req[r].pc = "increment"
  /\ \E err \in BOOLEAN :
       IF err THEN Failed(r) /\ UNCHANGED summary_logs
       ELSE /\ summary_logs' = incrementSummaryCount(summary_logs, req[r].chatId,
                                                     req[r].today)
            /\ req' = [req EXCEPT ![r].pc = "messages",
                         ![r].incremented = summary_logs'[<<req[r].chatId, req[r].today>>]
                                            - summary_logs[<<req[r].chatId, req[r].today>>],
                         ![r].start = parseTimePeriod("24h", now).start,
                         ![r].end = parseTimePeriod("24h", now).end]
  /\ UNCHANGED <<now, messages, requests>>
  /\ UNCHANGED outsideSummary

\* the messages are read: none, or generateSummary is called with them
SummaryMessages(r) ==
  /\ req[r].pc = "messages"
  /\ \E err \in BOOLEAN :
       IF err THEN Failed(r)
       ELSE LET found == getMessages(messages, req[r].chatId, req[r].start, req[r].end)
                entry == generateSummary(JsArray(Cardinality(found)))
            IN IF found = {}
               THEN req' = [req EXCEPT ![r].pc = "idle", ![r].fetched = TRUE,
                                       ![r].sends = 1,
                                       ![r].sent = "noMessages"]
               ELSE IF entry = "llm"
               THEN req' = [req EXCEPT ![r].pc = "llm", ![r].fetched = TRUE,
                                       ![r].llmCalls = 1]
               ELSE req' = [req EXCEPT ![r].pc = "idle", ![r].fetched = TRUE,
                                       ![r].sends =
                                         IF entry = "null" THEN 1
                                         ELSE handleSummaryCatch.sends
                                              + dispatchCatch(handleSummaryCatch.rejects),
                                       ![r].sent = IF entry = "null" THEN "noMessages"
                                                   ELSE "error"]
  /\ UNCHANGED <<now, summary_logs, messages, requests>>
  /\ UNCHANGED outsideSummary

\* the language model answers: a summary, the fallback notice after a
\* capacity error, or an error
SummaryLlm(r) ==
  /\ req[r].pc = "llm"
  /\ \E outcome \in LlmOutcomes :
       IF outcome = "other" THEN Failed(r)
       ELSE Reply(r, IF outcome = "ok" THEN "summary" ELSE "fallback")
  /\ UNCHANGED <<now, summary_logs, messages, requests>>
  /\ UNCHANGED outsideSummary

\* MessageHandler.handleMessage stores a text message of the chat
SaveMessage(chatId) ==
  /\ microtask = 0
  /\ messages' = saveMessage(messages, chatId, now)
  /\ UNCHANGED <<now, summary_logs, req, requests>>
  /\ UNCHANGED outsideSummary

SummaryStep ==
  \E r \in Reqs :
    \/ SummarySettings(r)
    \/ SummaryCount(r)
    \/ SummaryIncrement(r)
    \/ SummaryMessages(r)
    \/ SummaryLlm(r)

SummaryArrival ==
  \/ \E r \in Reqs, c \in Chats : HandleSummary(r, c)
  \/ \E c \in Chats : SaveMessage(c)
  \/ AdvanceClock

\* the table as earlier requests of the day left it
InitSummary ==
  /\ now = StartHour
  /\ DbEmpty
  /\ summary_logs \in { f \in [Chats \X Dates -> {0, DAILY_LIMIT - 1}] :
                          \A k \in Chats \X Dates : k[2] # Date(StartHour) => f[k] = 0 }
  /\ messages = {}
  /\ req = [r \in Reqs |-> IdleReq]
  /\ requests = 0
  /\ SchedulerConstructed

\* requests may overlap
NextSummary == SummaryArrival \/ SummaryStep
SpecSummary == InitSummary /\ [][NextSummary]_vars

\* requests are handled one at a time
NextSummarySeq == (NoRequestInFlight /\ SummaryArrival) \/ SummaryStep
SpecSummarySeq == InitSummary /\ [][NextSummarySeq]_vars

----------------------------------------------------------------------------
(* Scheduler *)

\* error.message of what processSchedule can catch, with the two
\* String.includes tests of its catch block evaluated on the text
ErrGeneration == [text |-> "Failed to generate summary. Please try again later.",
                  chatNotFound |-> FALSE, telegram |-> FALSE]
ErrChatNotFound == [text |-> "ETELEGRAM: 400 Bad Request: chat not found",
                    chatNotFound |-> TRUE, telegram |-> TRUE]
ErrTelegram == [text |-> "ETELEGRAM: 429 Too Many Requests",
                chatNotFound |-> FALSE, telegram |-> TRUE]
ErrNetwork == [text |-> "EFATAL: socket hang up",
               chatNotFound |-> FALSE, telegram |-> FALSE]
ErrStorage == [text |-> "SQLITE_BUSY: database is locked",
               chatNotFound |-> FALSE, telegram |-> FALSE]

IsCriticalErrorAnyFailure(error) == TRUE

IsCriticalError(error) == error.chatNotFound \/ error.telegram

getSchedulePeriod(scheduleType) ==
  IF scheduleType = "daily" THEN "24h"
  ELSE IF scheduleType = "3days" THEN "3d"
  ELSE IF scheduleType = "weekly" THEN "1w"
  ELSE "24h"

\* Scheduler.calculateNextRunTime, from the settings row it awaited
calculateNextRunTime(scheduleType, intervalHours, timezone, t) ==
  IF scheduleType = "daily"
  THEN StartOfDay(t + 24, timezone) + 9
  ELSE IF scheduleType = "weekly"
  THEN StartOfDay(t + 168, timezone) - 24 * LocalDay(t + 168, timezone) + 9
  ELSE t + intervalHours

\* db.getPendingSchedules: ... ORDER BY next_run ASC
OrderedByNextRun(rows) ==
  { s \in [1..Cardinality(rows) -> rows] :
      \A i, j \in 1..Cardinality(rows) :
        i < j => (s[i] # s[j] /\ s[i].next_run <= s[j].next_run) }

setInterval(timers) ==
  timers \cup { CHOOSE h \in 1..(Cardinality(timers) + 1) : h \notin timers }
clearInterval(timers, id) == timers \ {id}

InProcessSchedule(t) ==
  t.pc \in {"ps_generate", "ps_llm", "ps_send", "ps_settings", "ps_update", "ps_deactivate"}
TicksInFlight == { k \in Ticks : tick[k].pc # "idle" }
FreeTick == CHOOSE k \in Ticks : tick[k].pc = "idle"

\* processPendingSchedules() is called: it runs up to
\* `await this.db.getPendingSchedules()`
processPendingSchedulesCalled(ticks, k) ==
  [j \in Ticks |->
     IF j = k
     THEN [IdleTick EXCEPT !.pc = "getPending",
                           !.overlapped = \E o \in Ticks : ticks[o].pc # "idle"]
     ELSE IF ticks[j].pc # "idle" THEN [ticks[j] EXCEPT !.overlapped = TRUE]
     ELSE ticks[j]]

StartGuardMissing(running) == FALSE

StartGuard(running) == running          \* if (this.isRunning) return;

SchedulerCall(op, created, started) ==
  [op |-> op, bit |-> 1 - lastCall.bit, wasRunning |-> isRunning,
   newTimers |-> created, newTicks |-> started,
   changed |-> <<isRunning, intervalId, liveTimers, tick>>'
                 # <<isRunning, intervalId, liveTimers, tick>>]

Start ==
  /\ microtask = 0
  /\ IF StartGuard(isRunning)
     THEN UNCHANGED <<isRunning, intervalId, liveTimers, tick>>
     ELSE /\ \E k \in Ticks : tick[k].pc = "idle"
          /\ isRunning' = TRUE
          /\ liveTimers' = setInterval(liveTimers)
          /\ intervalId' = CHOOSE h \in liveTimers' : h \notin liveTimers
          /\ tick' = processPendingSchedulesCalled(tick, FreeTick)
  /\ lastCall' = SchedulerCall("start",
                               Cardinality(liveTimers') - Cardinality(liveTimers),
                               Cardinality({ k \in Ticks : tick'[k].pc # "idle" })
                                 - Cardinality(TicksInFlight))
  /\ UNCHANGED <<now, schedules, nextId, chat_settings, call, hist>>
  /\ UNCHANGED <<summary_logs, messages, req, requests, serviceVars, commandVars>>
  /\ UNCHANGED <<microtask, unreachable, lastRun, lastTick>>

Stop ==
  /\ microtask = 0
  /\ IF intervalId # 0
     THEN /\ liveTimers' = clearInterval(liveTimers, intervalId)
          /\ intervalId' = 0
     ELSE UNCHANGED <<liveTimers, intervalId>>
  /\ isRunning' = FALSE
  /\ UNCHANGED <<now, schedules, nextId, chat_settings, call, hist>>
  /\ UNCHANGED <<summary_logs, messages, req, requests, serviceVars, commandVars>>
  /\ UNCHANGED <<tick, microtask, unreachable, lastRun, lastTick>>
  /\ lastCall' = SchedulerCall("stop",
                               Cardinality(liveTimers') - Cardinality(liveTimers), 0)

\* the interval callback of start()
TimerFire(h) ==
  /\ microtask = 0
  /\ h \in liveTimers
  /\ \E k \in Ticks : tick[k].pc = "idle"
  /\ tick' = processPendingSchedulesCalled(tick, FreeTick)
  /\ UNCHANGED <<now, schedules, nextId, chat_settings, call, hist>>
  /\ UNCHANGED <<summary_logs, messages, req, requests, serviceVars, commandVars>>
  /\ UNCHANGED <<isRunning, intervalId, liveTimers, microtask, unreachable,
                 lastCall, lastRun, lastTick>>

\* Telegram stops delivering to a chat (the bot was removed, the chat deleted)
ChatLost(chatId) ==
  /\ microtask = 0
  /\ chatId \notin unreachable
  /\ unreachable' = unreachable \cup {chatId}
  /\ UNCHANGED <<now, schedules, nextId, chat_settings, call, hist>>
  /\ UNCHANGED <<summary_logs, messages, req, requests, serviceVars, commandVars>>
  /\ UNCHANGED <<isRunning, intervalId, liveTimers, tick, microtask,
                 lastCall, lastRun, lastTick>>

\* processSchedule(schedule) is called for pending[i]: it runs up to
\* `await this.summaryService.generateSummary(chat_id, period, this.db)`
processScheduleCalled(t, i, k) ==
  LET schedule == t.pending[i]
      period == parseTimePeriod(getSchedulePeriod(schedule.schedule_type), now)
      entry == generateSummary(JsNumber(schedule.chat_id))
  IN [t EXCEPT
        !.i = i,
        !.entry = entry,
        !.pc = IF entry = "llm" THEN "ps_llm" ELSE "ps_generate",
        !.run = [NoRun EXCEPT
                   !.id = schedule.id, !.chat = schedule.chat_id, !.tick = k,
                   !.hadMessages =
                     getMessages(messages, schedule.chat_id, period.start, period.end) # {},
                   !.chatGone = schedule.chat_id \in unreachable,
                   !.llmCalls = IF entry = "llm" THEN 1 ELSE 0,
                   !.nextRunBefore = schedule.next_run]]

\* the catch block of processSchedule
Caught(t, error) ==
  IF IsCriticalError(error)
  THEN [t |-> [t EXCEPT !.pc = "ps_deactivate"], rows |-> schedules, ends |-> "no"]
  ELSE [t |-> t, rows |-> schedules, ends |-> "resolved"]

Threw(t, kind) == [t EXCEPT !.run.error = kind, !.failed = @ + 1]

\* after `await generateSummary(...)` settled: the rest of the try block up
\* to `await this.db.getChatSettings(chatId)`, or to `await bot.sendMessage`
AfterGenerate(t, summary) ==
  IF summary = "rejected"
  THEN Caught(Threw(t, IF t.run.llmCalls = 0 THEN "input" ELSE "llm"), ErrGeneration)
  ELSE IF summary = "text"
  THEN [t |-> [t EXCEPT !.pc = "ps_send"], rows |-> schedules, ends |-> "no"]
  ELSE [t |-> [t EXCEPT !.pc = "ps_settings"], rows |-> schedules, ends |-> "no"]

IoOutcomes == {"ok", "error", "capacity", "telegram"}

\* one resumption of the execution in slot k; out is what the awaited
\* operation produced
Resume(t, out) ==
  LET schedule == t.pending[t.i] IN
  CASE t.pc = "ps_generate" ->
         AfterGenerate(t, IF t.entry = "throw" THEN "rejected" ELSE "null")
    [] t.pc = "ps_llm" ->
         \* a capacity error is answered with the text-file notice, which is
         \* a non-empty string as well
         AfterGenerate(t, IF out \in {"ok", "capacity"} THEN "text" ELSE "rejected")
    [] t.pc = "ps_send" ->
         IF schedule.chat_id \in unreachable
         THEN Caught(Threw(t, "delivery_permanent"), ErrChatNotFound)
         ELSE IF out = "telegram" THEN Caught(Threw(t, "delivery"), ErrTelegram)
         ELSE IF out = "error" THEN Caught(Threw(t, "delivery"), ErrNetwork)
         ELSE [t |-> [t EXCEPT !.pc = "ps_settings", !.run.sent = TRUE],
               rows |-> schedules, ends |-> "no"]
    [] t.pc = "ps_settings" ->
         IF out = "error" THEN Caught(Threw(t, "storage"), ErrStorage)
         ELSE [t |-> [t EXCEPT
                        !.pc = "ps_update",
                        !.nextRun = calculateNextRunTime(
                                      schedule.schedule_type, schedule.interval_hours,
                                      getChatSettings(chat_settings, schedule.chat_id).timezone,
                                      now)],
               rows |-> schedules, ends |-> "no"]
    [] t.pc = "ps_update" ->
         IF out = "error" THEN Caught(Threw(t, "storage"), ErrStorage)
         ELSE [t |-> [t EXCEPT !.run.updated = TRUE],
               rows |-> updateScheduleNextRun(schedules, schedule.id, t.nextRun),
               ends |-> "resolved"]
    [] t.pc = "ps_deactivate" ->
         IF out = "error"
         THEN [t |-> t, rows |-> schedules, ends |-> "rejected"]
         ELSE [t |-> [t EXCEPT !.run.deactivated = TRUE],
               rows |-> deactivateSchedule(schedules, schedule.id),
               ends |-> "resolved"]

\* the row of the schedule as processSchedule leaves it
Ended(run, rows) ==
  IF \E r \in rows : r.id = run.id
  THEN LET r == CHOOSE r \in rows : r.id = run.id
       IN [run EXCEPT !.rowActive = r.is_active, !.nextRunAfter = r.next_run]
  ELSE run

TickEnded(t, aborted) ==
  [due |-> Len(t.pending), started |-> t.i, failed |-> t.failed, aborted |-> aborted]

\* `for (const schedule of pendingSchedules) await this.processSchedule(schedule)`
\* after processSchedule settled ("resolved", "rejected"), or the return
\* before the loop ("empty")
LoopContinues(t, k, ends) ==
  IF ends = "no" THEN t
  ELSE IF ends = "resolved" /\ t.i < Len(t.pending) THEN processScheduleCalled(t, t.i + 1, k)
  ELSE IdleTick

Resumed(k, t, rows, ends) ==
  LET after == LoopContinues(t, k, ends) IN
  /\ tick' = [tick EXCEPT ![k] = after]
  /\ schedules' = rows
  /\ microtask' = IF after.pc = "ps_generate" THEN k ELSE 0
  /\ lastRun' = IF ends \in {"resolved", "rejected"} THEN Ended(t.run, rows) ELSE lastRun
  /\ lastTick' = IF after.pc = "idle" THEN TickEnded(t, ends = "rejected") ELSE lastTick
  /\ UNCHANGED <<now, nextId, chat_settings, call, hist>>
  /\ UNCHANGED <<summary_logs, messages, req, requests, serviceVars, commandVars>>
  /\ UNCHANGED <<isRunning, intervalId, liveTimers, unreachable, lastCall>>

\* an awaited promise that was already settled resumes from the microtask
\* queue, before any timer or I/O callback
TickMicrotask(k) ==
  /\ microtask = k
  /\ LET r == Resume(tick[k], "ok") IN Resumed(k, r.t, r.rows, r.ends)

\* an awaited storage, language-model or Telegram call answers; the first
\* one is the query of processPendingSchedules
TickIo(k) ==
  /\ microtask = 0
  /\ tick[k].pc # "idle"
  /\ \E out \in IoOutcomes,
        pending \in OrderedByNextRun(getPendingSchedules(schedules, now)) :
       IF tick[k].pc # "getPending"
       THEN LET r == Resume(tick[k], out) IN Resumed(k, r.t, r.rows, r.ends)
       ELSE IF out = "error" \/ pending = <<>>
       THEN Resumed(k, tick[k], schedules, "empty")
       ELSE Resumed(k, processScheduleCalled([tick[k] EXCEPT !.pending = pending], 1, k),
                    schedules, "no")

(* The scheduler over a database that /schedule commands and incoming *)
(* messages filled before it was started                               *)

\* the table after createSchedule(c, f[c]) completed at StartHour for every
\* chat c that f gives a schedule, in the order of the chat ids
TableOf(f) ==
  UNION { insertSchedule({}, Cardinality({ d \in Chats : d <= c /\ f[d] # NoRow }), c,
                         f[c].scheduleType, f[c].intervalHours,
                         calculateNextScheduleTime(f[c].scheduleType, f[c].intervalHours,
                                                   DefaultSettings.timezone, StartHour))
          : c \in { d \in Chats : f[d] # NoRow } }

InitSched ==
  /\ now = StartHour
  /\ \E f \in [Chats -> ScheduleOptions \cup {NoRow}] :
       /\ schedules = TableOf(f)
       /\ nextId = Cardinality(schedules) + 1
  /\ chat_settings = [c \in Chats |-> NoRow]
  /\ call = [p \in Callers |-> IdleCall]
  /\ hist = NoEntry
  /\ \E talking \in SUBSET Chats :
       messages = UNION { saveMessage({}, c, StartHour) : c \in talking }
  /\ summary_logs = [k \in Chats \X Dates |-> 0]
  /\ req = [r \in Reqs |-> IdleReq]
  /\ requests = 0
  /\ SchedulerConstructed

NextSched ==
  \/ \E c \in Chats : DeleteScheduleCall(c)
  \/ \E c \in Chats : ChatLost(c)
  \/ AdvanceClock
  \/ Start
  \/ Stop
  \/ \E h \in liveTimers : TimerFire(h)
  \/ \E k \in Ticks : TickIo(k)
  \/ \E k \in Ticks : TickMicrotask(k)

SpecSched == InitSched /\ [][NextSched]_vars

----------------------------------------------------------------------------
(* SummaryService *)

MAX_MESSAGES_PER_CHUNK == 100
MAX_TOKENS_PER_REQUEST == 3000

\* characters of one message as formatMessagesForAI renders it,
\* `[HH:mm] @username: text`
LineLens == {20, 352, 1090}

\* a message array: element i is the i-th row of getMessages; tagged marks a
\* text that contains #ChatSummary
Input(n, chars, tagged) ==
  [i \in 1..n |-> [id |-> i, chars |-> chars, tagged |-> tagged /\ i = 1]]

Min(a, b) == IF a < b THEN a ELSE b

sliceInclusive(a, from, to) == SubSeq(a, from + 1, Min(to + 1, Len(a)))

\* Array.prototype.slice(from, to)
slice(a, from, to) == SubSeq(a, from + 1, Min(to, Len(a)))

RECURSIVE chunkLoop(_, _, _, _)
chunkLoop(msgs, chunkSize, i, chunks) ==
  IF i < Len(msgs)
  THEN chunkLoop(msgs, chunkSize, i + chunkSize,
                 Append(chunks, slice(msgs, i, i + chunkSize)))
  ELSE chunks

chunkMessagesHalved(msgs, chunkSize) == chunkLoop(msgs, chunkSize \div 2, 0, <<>>)

chunkMessages(msgs, chunkSize) == chunkLoop(msgs, chunkSize, 0, <<>>)

\* the lines formatMessagesForAI keeps (stored messages always have a text)
formatMessagesForAI(msgs) == SelectSeq(msgs, LAMBDA m : ~m.tagged)

RECURSIVE SumChars(_)
SumChars(lines) ==
  IF lines = <<>> THEN 0 ELSE Head(lines).chars + SumChars(Tail(lines))

\* .join('\n'): the length of the transcript
JoinedLength(lines) ==
  IF lines = <<>> THEN 0 ELSE SumChars(lines) + (Len(lines) - 1)

estimateTokenCountFloor(length) == length \div 4

estimateTokenCount(length) == (length + 3) \div 4      \* Math.ceil(text.length / 4)

\* formatMessagesForTextFile: the header's total and the exported lines
formatMessagesForTextFile(msgs) ==
  [total |-> Len(msgs), lines |-> [i \in 1..Len(msgs) |-> msgs[i].id]]

\* error.message of a failed language-model call, with the three
\* String.includes tests of generateSummary's catch evaluated on the text
ErrQuota == [text |-> "429 You exceeded your current quota",
             rateLimit |-> FALSE, quota |-> TRUE, timeout |-> FALSE]
ErrServer == [text |-> "500 The server had an error while processing your request",
              rateLimit |-> FALSE, quota |-> FALSE, timeout |-> FALSE]
LlmError(out) == IF out = "capacity" THEN ErrQuota ELSE ErrServer

IsCapacityErrorNever(error) == FALSE

IsCapacityError(error) == error.rateLimit \/ error.quota \/ error.timeout

NeedsFinalSummaryAlways(chunkSummaries) == TRUE

NeedsFinalSummary(chunkSummaries) == chunkSummaries > 1   \* chunkSummaries.length > 1

\* moment().format('YYYY-MM-DD_HH-mm-ss')
FileStamp(t) == t \div 1000

writeFile(fs, name, content, g) ==
  { f \in fs : f.name # name } \cup { [name |-> name, content |-> content, by |-> g] }

ChunkCall(c, k) == [kind |-> "chunk", index |-> k, size |-> Len(c.chunks[k])]

\* generateTextFileFallback(messages, options) up to `await fs.mkdir`
Fallback(c) ==
  [c EXCEPT !.pc = "fb_mkdir", !.content = formatMessagesForTextFile(c.input)]

\* an error that leaves generateSummary
Throws(c) == [c EXCEPT !.pc = "done", !.result = "throw"]

Returns(c, value) == [c EXCEPT !.pc = "done", !.result = value]

\* generateSummary(messages, options) up to its first await
GenerateSummaryCall(g, msgs, missing) ==
  /\ gen[g].pc = "idle"
  /\ LET entry == generateSummary(IF missing THEN JsUndefined ELSE JsArray(Len(msgs)))
         tokens == estimateTokenCount(JoinedLength(formatMessagesForAI(msgs)))
         c == [IdleGen EXCEPT !.input = msgs]
         chunked == [c EXCEPT !.mode = "chunked",
                              !.chunks = chunkMessages(msgs, MAX_MESSAGES_PER_CHUNK)]
     IN gen' = [gen EXCEPT ![g] =
          IF entry = "null" THEN Returns(c, "null")
          ELSE IF entry = "throw" THEN Throws(c)
          ELSE IF Len(msgs) > MAX_MESSAGES_PER_CHUNK \/ tokens > MAX_TOKENS_PER_REQUEST
          THEN [chunked EXCEPT !.pc = "chunk", !.i = 1,
                               !.calls = <<ChunkCall(chunked, 1)>>]
          ELSE [c EXCEPT !.mode = "direct", !.pc = "direct",
                         !.calls = <<[kind |-> "direct", index |-> 0,
                                      size |-> Len(msgs)]>>]]
  /\ UNCHANGED <<files, ms, computed>>
  /\ UNCHANGED <<now, schedules, nextId, chat_settings, call, hist>>
  /\ UNCHANGED <<summary_logs, messages, req, requests, daemonVars, commandVars>>

\* the language model answers the call that is awaited
LlmAnswers(g) ==
  /\ gen[g].pc \in {"direct", "chunk", "final"}
  /\ \E out \in LlmOutcomes :
       LET c == gen[g]
           failed == [c EXCEPT !.failed = out]
       IN gen' = [gen EXCEPT ![g] =
            IF out # "ok"
            THEN IF c.pc = "direct"
                 THEN IF IsCapacityError(LlmError(out)) THEN Fallback(failed)
                      ELSE Throws(failed)
                 ELSE Fallback(failed)      \* generateChunkedSummary: catch (error)
            ELSE IF c.pc = "chunk" /\ c.i < Len(c.chunks)
            THEN [c EXCEPT !.i = c.i + 1, !.calls = Append(@, ChunkCall(c, c.i + 1))]
            ELSE IF c.pc = "chunk" /\ NeedsFinalSummary(Len(c.chunks))
            THEN [c EXCEPT !.pc = "final",
                           !.calls = Append(@, [kind |-> "final", index |-> 0,
                                                size |-> Len(c.chunks)])]
            ELSE Returns(c, "summary")]
  /\ UNCHANGED <<files, ms, computed>>
  /\ UNCHANGED <<now, schedules, nextId, chat_settings, call, hist>>
  /\ UNCHANGED <<summary_logs, messages, req, requests, daemonVars, commandVars>>

\* generateTextFileFallback called on its own
GenerateTextFileFallbackCall(g, msgs) ==
  /\ gen[g].pc = "idle"
  /\ \A h \in Gens : gen[h].input \in {<<>>, msgs}
  /\ gen' = [gen EXCEPT ![g] = Fallback([IdleGen EXCEPT !.input = msgs, !.mode = "fallback"])]
  /\ UNCHANGED <<files, ms, computed>>
  /\ UNCHANGED <<now, schedules, nextId, chat_settings, call, hist>>
  /\ UNCHANGED <<summary_logs, messages, req, requests, daemonVars, commandVars>>

\* fs.mkdir answers; the file name is taken from the clock afterwards
FsMkdir(g) ==
  /\ gen[g].pc = "fb_mkdir"
  /\ \E ok \in BOOLEAN :
       gen' = [gen EXCEPT ![g] =
                 IF ok THEN [@ EXCEPT !.pc = "fb_write", !.filename = FileStamp(ms)]
                 ELSE Throws([@ EXCEPT !.fsFailed = TRUE])]
  /\ UNCHANGED <<files, ms, computed>>
  /\ UNCHANGED <<now, schedules, nextId, chat_settings, call, hist>>
  /\ UNCHANGED <<summary_logs, messages, req, requests, daemonVars, commandVars>>

\* fs.writeFile answers; the notice reports messages.length
FsWrite(g) ==
  /\ gen[g].pc = "fb_write"
  /\ \E ok \in BOOLEAN :
       IF ok
       THEN /\ files' = writeFile(files, gen[g].filename, gen[g].content, g)
            /\ gen' = [gen EXCEPT ![g] =
                         Returns([@ EXCEPT !.wrote = 1, !.reported = Len(gen[g].input)], "notice")]
       ELSE /\ gen' = [gen EXCEPT ![g] = Throws([@ EXCEPT !.fsFailed = TRUE])]
            /\ UNCHANGED files
  /\ UNCHANGED <<ms, computed>>
  /\ UNCHANGED <<now, schedules, nextId, chat_settings, call, hist>>
  /\ UNCHANGED <<summary_logs, messages, req, requests, daemonVars, commandVars>>

MsTick ==
  /\ ms + MsStep <= MaxMs
  /\ ms' = ms + MsStep
  /\ UNCHANGED <<gen, files, computed>>
  /\ UNCHANGED <<now, schedules, nextId, chat_settings, call, hist>>
  /\ UNCHANGED <<summary_logs, messages, req, requests, daemonVars, commandVars>>

InitService ==
  /\ now = StartHour
  /\ DbEmpty
  /\ NoSummaryRequests
  /\ SchedulerConstructed

\* one generateSummary call, on any message array
NextService ==
  \/ \E n \in 0..MaxLen, chars \in LineLens, tagged, missing \in BOOLEAN :
       /\ missing => (n = 0 /\ ~tagged)
       /\ GenerateSummaryCall(1, Input(n, chars, tagged), missing)
  \/ LlmAnswers(1)
  \/ FsMkdir(1)
  \/ FsWrite(1)

SpecService == InitService /\ [][NextService]_vars

\* generateTextFileFallback calls on the same message array
NextFallback ==
  \/ \E g \in Gens, n \in 1..3, chars \in LineLens :
       GenerateTextFileFallbackCall(g, Input(n, chars, FALSE))
  \/ \E g \in Gens : FsMkdir(g)
  \/ \E g \in Gens : FsWrite(g)
  \/ MsTick

SpecFallback == InitService /\ [][NextFallback]_vars

----------------------------------------------------------------------------
(* The two next-run computations, at any hour of the week *)

Computation(fn, opt, timezone, result) ==
  [fn |-> fn, scheduleType |-> opt.scheduleType, timezone |-> timezone,
   t |-> now, result |-> result]

\* Database.createSchedule computes the next_run it inserts
CreationTimeComputed(opt, timezone) ==
  /\ computed' = Computation("calculateNextScheduleTime", opt, timezone,
                             calculateNextScheduleTime(opt.scheduleType, opt.intervalHours,
                                                       timezone, now))
  /\ UNCHANGED <<gen, files, ms>>
  /\ UNCHANGED <<now, schedules, nextId, chat_settings, call, hist>>
  /\ UNCHANGED <<summary_logs, messages, req, requests, daemonVars, commandVars>>

\* Scheduler.processSchedule computes the next_run it stores after a firing
RunTimeComputed(opt, timezone) ==
  /\ computed' = Computation("calculateNextRunTime", opt, timezone,
                             calculateNextRunTime(opt.scheduleType, opt.intervalHours,
                                                  timezone, now))
  /\ UNCHANGED <<gen, files, ms>>
  /\ UNCHANGED <<now, schedules, nextId, chat_settings, call, hist>>
  /\ UNCHANGED <<summary_logs, messages, req, requests, daemonVars, commandVars>>

InitClock ==
  /\ now \in 0..MaxHour
  /\ DbEmpty
  /\ NoSummaryRequests
  /\ SchedulerConstructed

NextClock ==
  \/ \E opt \in ScheduleOptions, timezone \in Timezones : CreationTimeComputed(opt, timezone)
  \/ \E opt \in ScheduleOptions, timezone \in Timezones : RunTimeComputed(opt, timezone)

SpecClock == InitClock /\ [][NextClock]_vars

----------------------------------------------------------------------------
(* CommandHandler.parseTimePeriod, on any token and with a running clock *)

\* a string is the sequence of its characters
Digits == {"0", "1", "2", "3", "4", "5", "6", "7", "8", "9"}
HexDigits == Digits \cup {"a", "b", "c", "d", "e", "f", "A", "B", "C", "D", "E", "F"}

DigitValue(c) ==
  CASE c = "0" -> 0 [] c = "1" -> 1 [] c = "2" -> 2 [] c = "3" -> 3 [] c = "4" -> 4
    [] c = "5" -> 5 [] c = "6" -> 6 [] c = "7" -> 7 [] c = "8" -> 8 [] c = "9" -> 9
    [] c \in {"a", "A"} -> 10 [] c \in {"b", "B"} -> 11 [] c \in {"c", "C"} -> 12
    [] c \in {"d", "D"} -> 13 [] c \in {"e", "E"} -> 14 [] c \in {"f", "F"} -> 15

UpperCase == <<"A", "B", "C", "D", "E", "F", "G", "H", "I", "J", "K", "L", "M",
               "N", "O", "P", "Q", "R", "S", "T", "U", "V", "W", "X", "Y", "Z">>
LowerCase == <<"a", "b", "c", "d", "e", "f", "g", "h", "i", "j", "k", "l", "m",
               "n", "o", "p", "q", "r", "s", "t", "u", "v", "w", "x", "y", "z">>

\* String.prototype.toLowerCase
toLowerCase(str) ==
  [i \in 1..Len(str) |->
     IF \E k \in 1..Len(UpperCase) : UpperCase[k] = str[i]
     THEN LowerCase[CHOOSE k \in 1..Len(UpperCase) : UpperCase[k] = str[i]]
     ELSE str[i]]

WhiteSpace == {" ", "\n", "\t"}

\* String.prototype.trim
RECURSIVE trimStart(_)
trimStart(str) == IF str # <<>> /\ str[1] \in WhiteSpace THEN trimStart(Tail(str)) ELSE str
RECURSIVE trimEnd(_)
trimEnd(str) ==
  IF str # <<>> /\ str[Len(str)] \in WhiteSpace THEN trimEnd(SubSeq(str, 1, Len(str) - 1)) ELSE str
trim(str) == trimEnd(trimStart(str))

\* the longest prefix of str made of the given digits
RECURSIVE DigitPrefix(_, _)
DigitPrefix(str, digits) ==
  IF str # <<>> /\ str[1] \in digits
  THEN <<str[1]>> \o DigitPrefix(Tail(str), digits)
  ELSE <<>>

RECURSIVE NumberIn(_, _)
NumberIn(ds, radix) ==
  IF ds = <<>> THEN 0
  ELSE NumberIn(SubSeq(ds, 1, Len(ds) - 1), radix) * radix + DigitValue(ds[Len(ds)])

NaN == [nan |-> TRUE, value |-> 0]
Finite(n) == [nan |-> FALSE, value |-> n]
isNaN(v) == v.nan


\* parseInt(str) without a radix: leading blanks, a sign, then 0x and
\* hexadecimal digits or else decimal digits; what follows the digits is
\* ignored, and no digit at all gives NaN
parseInt(str) ==
  LET s == trimStart(str)
      signed == s # <<>> /\ s[1] \in {"+", "-"}
      u == IF signed THEN Tail(s) ELSE s
      hex == Len(u) >= 2 /\ u[1] = "0" /\ u[2] \in {"x", "X"}
      ds == IF hex THEN DigitPrefix(SubSeq(u, 3, Len(u)), HexDigits)
            ELSE DigitPrefix(u, Digits)
      n == NumberIn(ds, IF hex THEN 16 ELSE 10)
  IN  IF ds = <<>> THEN NaN
      ELSE Finite(IF signed /\ s[1] = "-" THEN 0 - n ELSE n)

SecondMs == 1000
HourSeconds == 3600
DaySeconds == 24 * HourSeconds
DayMs == DaySeconds * SecondMs

\* moment's units of unitMap, in seconds (the server's zone has no clock shifts)
UnitSeconds(unit) ==
  CASE unit = "h" -> HourSeconds [] unit = "d" -> DaySeconds [] unit = "w" -> 7 * DaySeconds

unix(t) == t \div SecondMs                  \* moment.unix(): whole seconds
startOfDay(t) == t - (t % DayMs)            \* .startOf('day')
endOfDay(t) == startOfDay(t) + DayMs - 1    \* .endOf('day')

Today == <<"t", "o", "d", "a", "y">>
Yesterday == <<"y", "e", "s", "t", "e", "r", "d", "a", "y">>
DefaultPeriod == <<"2", "4", "h">>

\* period.match(/^(\d+)([hdw])$/)
MatchesDuration(period) ==
  /\ Len(period) >= 2
  /\ \A i \in 1..(Len(period) - 1) : period[i] \in Digits
  /\ period[Len(period)] \in {"h", "d", "w"}

DefaultHoursHalved == 24 \div 2

DefaultHours == 24                          \* moment().subtract(24, 'hours')

\* the description is 'Today', 'Yesterday' or 'Last <amount><unit>'
Window(start, end, text, amount, unit) ==
  [start |-> unix(start), end |-> unix(end),
   description |-> [text |-> text, amount |-> amount, unit |-> unit]]

\* parseTimePeriod(period); given is FALSE when period is undefined; reads
\* are the values of the clock at the successive moment() calls
parseTimePeriodAt(given, str, reads) ==
  LET period == toLowerCase(IF ~given \/ str = <<>> THEN DefaultPeriod ELSE str)
      t == reads[1]
  IN  IF period = Today
      THEN Window(startOfDay(reads[2]), t, "Today", 0, "")
      ELSE IF period = Yesterday
      THEN Window(startOfDay(reads[2] - DayMs), endOfDay(reads[3] - DayMs), "Yesterday", 0, "")
      ELSE IF MatchesDuration(period)
      THEN LET amount == parseInt(SubSeq(period, 1, Len(period) - 1)).value
               unit == period[Len(period)]
           IN  Window(reads[2] - amount * UnitSeconds(unit) * SecondMs, t, "Last", amount, unit)
      ELSE Window(reads[2] - DefaultHours * HourSeconds * SecondMs, t, "Last", 24, "h")

PeriodTokens ==
  { <<>>, Today, <<"T", "o", "d", "a", "y">>, Yesterday, DefaultPeriod,
    <<"2", "4", "H">>, <<"0", "2", "4", "h">>, <<"2", "h">>, <<"3", "d">>, <<"1", "w">>,
    <<"h">>, <<"2", "4">>, <<"2", "4", "x">>, <<"3", " ", "d">>, <<"3", "d", " ">>,
    <<"-", "1", "d">>, <<"w", "e", "e", "k">> }

\* the instants the clock starts from: around a midnight, which is also the
\* start of a second, and around the middle of a second
MidnightMs == 10 * DayMs
ClockCentres == {MidnightMs, MidnightMs + (DayMs \div 2) + (SecondMs \div 2)}
ClockStarts == UNION { (c - Span)..(c + Span) : c \in ClockCentres }
Horizon(t) == CHOOSE h \in { c + Span : c \in ClockCentres } : h >= t /\ h - t <= 2 * Span

\* one parseTimePeriod call; the clock advances by d1 between the first and
\* the second moment() call and by d2 between the second and the third
ParseTimePeriodCalled(given, str, d1, d2) ==
  LET reads == <<ms, ms + d1, ms + d1 + d2>>
  IN  /\ ~given => str = <<>>
      /\ reads[3] <= Horizon(ms)
      /\ computed' = [fn |-> "parseTimePeriod", given |-> given, period |-> str,
                      reads |-> reads, result |-> parseTimePeriodAt(given, str, reads)]
      /\ ms' = reads[3]
      /\ UNCHANGED <<gen, files>>
      /\ UNCHANGED <<now, schedules, nextId, chat_settings, call, hist>>
      /\ UNCHANGED <<summary_logs, messages, req, requests, daemonVars, commandVars>>

InitPeriod ==
  /\ now = StartHour
  /\ DbEmpty
  /\ NoSummaryRequests
  /\ DaemonConstructed
  /\ gen = [g \in Gens |-> IdleGen]
  /\ files = {}
  /\ ms \in ClockStarts
  /\ computed = NoComputation

NextPeriod ==
  \E given \in BOOLEAN, str \in PeriodTokens, d1, d2 \in 0..MaxElapsed :
    ParseTimePeriodCalled(given, str, d1, d2)

SpecPeriod == InitPeriod /\ [][NextPeriod]_vars

----------------------------------------------------------------------------

(* CommandHandler: the commands that change stored state. Each handler is    *)
(* taken as a whole and its storage calls succeed.                           *)

Users == {10, 11}
Owner == 10                      \* the user a BOT_OWNER_ID list names
CommandChats == {1}

\* what bot.getChatMember answers: a ChatMember whose can_manage_chat exists
\* for administrators only; status "unavailable" stands for a failed call
MemberStatuses == {"creator", "administrator", "member", "unavailable"}
Members ==
  { m \in [id : Users, status : MemberStatuses, can_manage_chat : BOOLEAN] :
      /\ m.can_manage_chat <=> m.status = "administrator"
      /\ m.id = Owner => m.status = "member" }

isAdminEveryone(chatMember) == TRUE

isAdmin(chatMember) ==
  IF chatMember.status = "unavailable"
  THEN FALSE                                   \* catch: return false
  ELSE \/ chatMember.status = "creator"
       \/ chatMember.status = "administrator"
       \/ chatMember.can_manage_chat = TRUE

\* String.prototype.split(sep)
RECURSIVE split(_, _)
split(str, sep) ==
  IF \E i \in 1..Len(str) : str[i] = sep
  THEN LET i == CHOOSE j \in 1..Len(str) :
                  str[j] = sep /\ \A k \in 1..(j - 1) : str[k] # sep
       IN  <<SubSeq(str, 1, i - 1)>> \o split(SubSeq(str, i + 1, Len(str)), sep)
  ELSE <<str>>

isBotOwner(env, userId) ==
  IF ~env.set \/ env.value = <<>>
  THEN FALSE                                   \* if (!botOwnerId) return false
  ELSE LET ids == split(env.value, ",")
       IN  \E i \in 1..Len(ids) :
             /\ ~isNaN(parseInt(trim(ids[i])))
             /\ parseInt(trim(ids[i])).value = userId

OwnerSettings == {EnvUnset, Env(<<>>), Env(<<"1", "2", ",", "1", "0">>)}

\* if (!isAdminUser && !isOwner) { ...onlyAdmins; return }
Authorized(from) == isAdmin(from) \/ isBotOwner(BOT_OWNER_ID, from.id)

\* table[key] of an object literal is truthy for the literal's keys and for
\* the property names every object inherits
ObjectPrototypeKeys ==
  {"constructor", "toString", "valueOf", "hasOwnProperty", "isPrototypeOf",
   "propertyIsEnumerable", "toLocaleString", "__proto__"}
HasTruthy(keys, key) == key \in keys \cup ObjectPrototypeKeys

supportedLanguages ==
  {"en", "es", "fr", "de", "it", "pt", "ru", "ja", "ko", "zh", "ar", "hi", "uk", "pl",
   "nl", "tr"}
supportedTimezones ==
  {"UTC", "Europe/Kyiv", "America/New_York", "America/Chicago", "America/Denver",
   "America/Los_Angeles", "Europe/London", "Europe/Paris", "Europe/Berlin",
   "Europe/Moscow", "Asia/Tokyo", "Asia/Shanghai", "Asia/Seoul", "Asia/Dubai",
   "Asia/Kolkata", "Australia/Sydney", "Pacific/Auckland"}

MinLength == 200
MaxLength == 5000

\* what the senders type after the command
LanguageArgs == {"es", "xx"}
TimezoneArgs == {"Asia/Tokyo", "Mars/Base"}
ScheduleArgs == {"daily", "3days", "weekly", "off", "hourly"}
ValidLength == <<"5", "0", "0", "0">>
LengthArgs ==
  { <<"2", "0", "0">>, ValidLength, <<"1", "9", "9">>, <<"5", "0", "0", "1">>,
    <<"a", "b", "c">>, <<"3", "0", "0", "a", "b", "c">> }

\* the switch of handleSchedule: what is handed to createSchedule
ScheduleOptionOf(action) ==
  CASE action = "daily"  -> [scheduleType |-> "daily",  intervalHours |-> 24]
    [] action = "weekly" -> [scheduleType |-> "weekly", intervalHours |-> 168]
    [] action = "3days"  -> [scheduleType |-> "custom", intervalHours |-> 72]
    [] OTHER -> NoRow

\* the record of a handled command; it is written after the tables
Command(cmd, chatId, from, given, arg, text, length, outcome) ==
  [cmd |-> cmd, chatId |-> chatId, from |-> from, given |-> given,
   arg |-> IF given THEN arg ELSE "", text |-> IF given THEN text ELSE <<>>,
   length |-> length, outcome |-> outcome,
   changed |-> <<chat_settings', schedules', messages'>> # <<chat_settings, schedules, messages>>]

CommandFrame ==
  /\ UNCHANGED <<now, call, hist, summary_logs, req, requests, BOT_OWNER_ID>>
  /\ UNCHANGED <<daemonVars, serviceVars>>

HandleClear(chatId, from) ==
  LET outcome == IF ~Authorized(from) THEN "denied" ELSE "stored"
  IN  /\ messages' = IF outcome = "stored" THEN clearChatHistory(messages, chatId)
                     ELSE messages
      /\ UNCHANGED <<chat_settings, schedules, nextId>>
      /\ lastCommand' = Command("clear", chatId, from, FALSE, "", <<>>, Undefined, outcome)
      /\ CommandFrame

HandleLanguage(chatId, from, given, languageCode) ==
  LET outcome == IF ~Authorized(from) THEN "denied"
                 ELSE IF ~given THEN "shown"
                 ELSE IF ~HasTruthy(supportedLanguages, languageCode) THEN "rejected"
                 ELSE "stored"
  IN  /\ chat_settings' =
           IF outcome = "stored"
           THEN [chat_settings EXCEPT
                   ![chatId] = setChatLanguageRow(chat_settings, chatId, languageCode)]
           ELSE chat_settings
      /\ UNCHANGED <<schedules, nextId, messages>>
      /\ lastCommand' = Command("language", chatId, from, given, languageCode, <<>>,
                                Undefined, outcome)
      /\ CommandFrame

HandleLength(chatId, from, given, lengthValue) ==
  LET length == parseInt(lengthValue)
      outcome == IF ~Authorized(from) THEN "denied"
                 ELSE IF ~given \/ lengthValue = <<>> THEN "shown"
                 ELSE IF isNaN(length) \/ length.value < MinLength
                                       \/ length.value > MaxLength THEN "rejected"
                 ELSE "stored"
  IN  /\ chat_settings' =
           IF outcome = "stored"
           THEN [chat_settings EXCEPT
                   ![chatId] = setSummaryLengthRow(chat_settings, chatId, length.value)]
           ELSE chat_settings
      /\ UNCHANGED <<schedules, nextId, messages>>
      /\ lastCommand' = Command("length", chatId, from, given, "", lengthValue,
                                IF outcome = "stored" THEN length.value ELSE Undefined,
                                outcome)
      /\ CommandFrame

HandleTimezone(chatId, from, given, timezoneCode) ==
  LET outcome == IF ~Authorized(from) THEN "denied"
                 ELSE IF ~given THEN "shown"
                 ELSE IF ~HasTruthy(supportedTimezones, timezoneCode) THEN "rejected"
                 ELSE "stored"
  IN  /\ chat_settings' =
           IF outcome = "stored"
           THEN [chat_settings EXCEPT
                   ![chatId] = setChatTimezoneRow(chat_settings, chatId, timezoneCode)]
           ELSE chat_settings
      /\ UNCHANGED <<schedules, nextId, messages>>
      /\ lastCommand' = Command("timezone", chatId, from, given, timezoneCode, <<>>,
                                Undefined, outcome)
      /\ CommandFrame

\* createSchedule is deleteSchedule, getChatSettings, calculateNextScheduleTime
\* and the INSERT
HandleSchedule(chatId, from, given, action) ==
  LET opt == ScheduleOptionOf(action)
      outcome == IF ~Authorized(from) THEN "denied"
                 ELSE IF ~given THEN "shown"
                 ELSE IF action = "off" THEN "cancelled"
                 ELSE IF opt = NoRow THEN "rejected"
                 ELSE "stored"
      nextRun == calculateNextScheduleTime(opt.scheduleType, opt.intervalHours,
                                           getChatSettings(chat_settings, chatId).timezone,
                                           now)
  IN  /\ outcome = "stored" => nextId <= MaxId
      /\ schedules' =
           CASE outcome = "cancelled" -> deleteSchedule(schedules, chatId)
             [] outcome = "stored" ->
                  insertSchedule(deleteSchedule(schedules, chatId), nextId, chatId,
                                 opt.scheduleType, opt.intervalHours, nextRun)
             [] OTHER -> schedules
      /\ nextId' = IF outcome = "stored" THEN nextId + 1 ELSE nextId
      /\ UNCHANGED <<chat_settings, messages>>
      /\ lastCommand' = Command("schedule", chatId, from, given, action, <<>>, Undefined,
                                outcome)
      /\ CommandFrame

\* the chats have no settings row and no schedule, and a stored message each
InitCommands ==
  /\ now = StartHour
  /\ DbEmpty
  /\ summary_logs = [k \in Chats \X Dates |-> 0]
  /\ messages = { [chat_id |-> c, timestamp |-> now] : c \in Chats }
  /\ req = [r \in Reqs |-> IdleReq]
  /\ requests = 0
  /\ SchedulerIdle
  /\ NoServiceCalls
  /\ BOT_OWNER_ID \in OwnerSettings
  /\ lastCommand = NoCommand

\* the five commands, from any sender; an argument may be left out
NoArg == ""
NoText == <<>>

NextCommands ==
  \/ \E chatId \in CommandChats, from \in Members : HandleClear(chatId, from)
  \/ \E chatId \in CommandChats, from \in Members, arg \in LanguageArgs \cup {NoArg} :
       HandleLanguage(chatId, from, arg # NoArg, arg)
  \/ \E chatId \in CommandChats, from \in Members,
          text \in {ValidLength, <<"a", "b", "c">>, NoText} :
       HandleLength(chatId, from, text # NoText, text)
  \/ \E chatId \in CommandChats, from \in Members, arg \in TimezoneArgs \cup {NoArg} :
       HandleTimezone(chatId, from, arg # NoArg, arg)
  \/ \E chatId \in CommandChats, from \in Members,
          arg \in {"daily", "off", "hourly", NoArg} :
       HandleSchedule(chatId, from, arg # NoArg, arg)

SpecCommands == InitCommands /\ [][NextCommands]_vars

\* /length with any value
NextLength ==
  \E chatId \in CommandChats, from \in Members, text \in LengthArgs \cup {NoText} :
    HandleLength(chatId, from, text # NoText, text)

SpecLength == InitCommands /\ [][NextLength]_vars

\* /schedule with any option
NextSchedule ==
  \E chatId \in CommandChats, from \in Members, arg \in ScheduleArgs \cup {NoArg} :
    HandleSchedule(chatId, from, arg # NoArg, arg)

SpecSchedule == InitCommands /\ [][NextSchedule]_vars

----------------------------------------------------------------------------
(* Database: the three settings updates, called by any client *)

SettingsCall(op, chatId, arg, length) ==
  [cmd |-> op, chatId |-> chatId, from |-> NoSender, given |-> TRUE, arg |-> arg,
   text |-> <<>>, length |-> length, outcome |-> "stored",
   changed |-> chat_settings' # chat_settings]

SettingsFrame ==
  /\ UNCHANGED <<now, schedules, nextId, call, hist, BOT_OWNER_ID>>
  /\ UNCHANGED <<summary_logs, messages, req, requests, daemonVars, serviceVars>>

SetChatLanguageCall(chatId, language) ==
  /\ chat_settings' = [chat_settings EXCEPT
                         ![chatId] = setChatLanguageRow(chat_settings, chatId, language)]
  /\ lastCommand' = SettingsCall("setChatLanguage", chatId, language, Undefined)
  /\ SettingsFrame

SetSummaryLengthCall(chatId, length) ==
  /\ chat_settings' = [chat_settings EXCEPT
                         ![chatId] = setSummaryLengthRow(chat_settings, chatId, length)]
  /\ lastCommand' = SettingsCall("setSummaryLength", chatId, "", length)
  /\ SettingsFrame

SetChatTimezoneCall(chatId, timezone) ==
  /\ chat_settings' = [chat_settings EXCEPT
                         ![chatId] = setChatTimezoneRow(chat_settings, chatId, timezone)]
  /\ lastCommand' = SettingsCall("setChatTimezone", chatId, timezone, Undefined)
  /\ SettingsFrame

Languages == {"en", "es"}
Lengths == {MinLength, DefaultSettings.summary_length}

NextSettings ==
  \/ \E chatId \in Chats, language \in Languages : SetChatLanguageCall(chatId, language)
  \/ \E chatId \in Chats, length \in Lengths : SetSummaryLengthCall(chatId, length)
  \/ \E chatId \in Chats, timezone \in Timezones : SetChatTimezoneCall(chatId, timezone)

SpecSettings == InitDb /\ [][NextSettings]_vars

----------------------------------------------------------------------------

(* SummaryService.formatMessagesForAI on the texts of the messages *)

MaxText == 3          \* characters of one message text
MaxMessages == 2      \* messages of one formatMessagesForAI call

Marker == "#"         \* the hashtag #ChatSummary, as one symbol
TextChars == {"a", " ", "\n", Marker}
Texts == UNION { [1..n -> TextChars] : n \in 0..MaxText }
MessageIds == <<"1", "2", "3", "4">>

\* the rows handed to formatMessagesForAI: row i carries the id MessageIds[i]
Transcripts ==
  UNION { { [i \in 1..n |-> [id |-> MessageIds[i], text |-> texts[i]]]
            : texts \in [1..n -> Texts] } : n \in 0..MaxMessages }

includes(str, ch) == \E i \in 1..Len(str) : str[i] = ch

\* Array.prototype.join
RECURSIVE join(_, _)
join(parts, sep) ==
  IF parts = <<>> THEN <<>>
  ELSE IF Len(parts) = 1 THEN parts[1]
  ELSE parts[1] \o <<sep>> \o join(Tail(parts), sep)

\* `[HH:mm] @username: text` of one message
FormattedMessage(msg) == <<"[", msg.id, "]">> \o msg.text

\* the two filters, the map and the join of formatMessagesForAI
formatTranscript(msgs) ==
  LET withText == SelectSeq(msgs, LAMBDA msg : msg.text # <<>> /\ Len(trim(msg.text)) > 0)
      untagged == SelectSeq(withText, LAMBDA msg : ~includes(msg.text, Marker))
  IN  join([i \in 1..Len(untagged) |-> FormattedMessage(untagged[i])], "\n")

\* the lines of a text
Lines(text) == IF text = <<>> THEN <<>> ELSE split(text, "\n")

FormatMessagesForAICalled(msgs) ==
  /\ computed = NoComputation
  /\ computed' = [fn |-> "formatMessagesForAI", messages |-> msgs,
                  result |-> formatTranscript(msgs)]
  /\ UNCHANGED <<gen, files, ms>>
  /\ UNCHANGED <<now, schedules, nextId, chat_settings, call, hist>>
  /\ UNCHANGED <<summary_logs, messages, req, requests, daemonVars, commandVars>>

NextFormat == \E msgs \in Transcripts : FormatMessagesForAICalled(msgs)
SpecFormat == InitDb /\ [][NextFormat]_vars

----------------------------------------------------------------------------

(* MessageHandler.handleMessage *)

MaxAgeSeconds == 86400              \* `messageAge > 86400`

\* msg.text of an incoming update: absent, empty, a command, plain text,
\* and texts that hold a slash after their first character
MessageTexts == {<<>>, <<"/", "a">>, <<"a">>, <<" ", "/">>, <<"a", "/">>}

\* msg.date values around the age limit at the clock reading t, and a
\* message of this second
MessageDates(t) ==
  LET s == t \div SecondMs
  IN  {s - MaxAgeSeconds - 1, s - MaxAgeSeconds, s - MaxAgeSeconds + 1, s}

startsWith(str, ch) == str # <<>> /\ str[1] = ch

\* Date.now() / 1000 - msg.date, in milliseconds
messageAge(t, date) == t - date * SecondMs

TooOldInclusive(age) == age >= MaxAgeSeconds * SecondMs

TooOld(age) == age > MaxAgeSeconds * SecondMs

\* the early returns of handleMessage
Skipped(given, text, t, date) ==
  \/ ~given \/ text = <<>> \/ startsWith(text, "/")
  \/ TooOld(messageAge(t, date))

\* try { await this.db.saveMessage(messageData) } catch (error) { log }
SaveOutcome(ok) == IF ok THEN "stored" ELSE "swallowed"

HandleMessage(chatId, given, text, date, ok) ==
  LET outcome == IF Skipped(given, text, ms, date) THEN "skipped" ELSE SaveOutcome(ok)
  IN  /\ ~given => text = <<>>
      /\ outcome = "skipped" => ok
      /\ messages' = IF outcome = "stored" THEN saveMessage(messages, chatId, date)
                     ELSE messages
      /\ computed' = [fn |-> "handleMessage", chatId |-> chatId, given |-> given,
                      text |-> text, date |-> date, at |-> ms, saveOk |-> ok,
                      outcome |-> outcome, changed |-> messages' # messages]
      /\ UNCHANGED <<gen, files, ms>>
      /\ UNCHANGED <<now, schedules, nextId, chat_settings, call, hist>>
      /\ UNCHANGED <<summary_logs, req, requests, daemonVars, commandVars>>

NextMessages ==
  \E c \in CommandChats, given, ok \in BOOLEAN, text \in MessageTexts,
     date \in MessageDates(ms) :
    HandleMessage(c, given, text, date, ok)

SpecMessages == InitPeriod /\ [][NextMessages]_vars

----------------------------------------------------------------------------

(* Claims about the schedules table *)

ActiveCount(chatId) == Cardinality(getActiveSchedules(schedules, chatId))

\* C1: when the Database calls run one at a time, after every completed call
\* each chat has at most one row with is_active = 1; and when the last two
\* completed calls were createSchedule for the same chat and the second one
\* resolved, that chat has exactly one active row, with the type and the
\* interval of the second call.
C1_OneActiveSchedulePerChat ==
  NoCallInFlight =>
    /\ \A c \in Chats : ActiveCount(c) <= 1
    /\ (hist.op = "createSchedule" /\ hist.twice /\ hist.ok) =>
         \E r \in schedules :
           /\ getActiveSchedules(schedules, hist.chatId) = {r}
           /\ r.schedule_type = hist.scheduleType
           /\ r.interval_hours = hist.intervalHours

C1_Witness ==
  /\ NoCallInFlight
  /\ hist.op = "createSchedule" /\ hist.twice /\ hist.ok
  /\ hist.scheduleType = "weekly"
  /\ \E r \in schedules : r.is_active = 0
  /\ ActiveCount(hist.chatId) = 1

\* C2: once two overlapping createSchedule calls for the same chat have both
\* completed (no call is in flight), the chat has at most one active schedule.
C2_OneActiveAfterConcurrentCreate ==
  NoCallInFlight => \A c \in Chats : ActiveCount(c) <= 1

----------------------------------------------------------------------------
(* Claims about the daily quota of /summary *)

\* C3: when requests are handled one at a time, a request that finds the
\* count of its chat for today's UTC date at the limit of 10 ends with the
\* limit notice: it made no language-model call, fetched no messages and did
\* not increment the count.
C3_RejectedAtLimit ==
  \A r \in Reqs :
    (req[r].dailyCount # Undefined /\ req[r].dailyCount >= DAILY_LIMIT) =>
      /\ req[r].pc = "idle"
      /\ req[r].sent = "limit"
      /\ req[r].llmCalls = 0
      /\ ~req[r].fetched
      /\ req[r].incremented = 0
      /\ summary_logs[<<req[r].chatId, req[r].today>>] >= req[r].dailyCount

C3_Witness ==
  \E r \in Reqs :
    /\ req[r].dailyCount = DAILY_LIMIT
    /\ req[r].sent = "limit"
    /\ summary_logs[<<req[r].chatId, req[r].today>>] = DAILY_LIMIT
    /\ requests >= 2

\* C4: under every interleaving of /summary requests the stored count of a
\* chat for one UTC date never exceeds 10.
C4_CountNeverExceedsLimit ==
  \A k \in Chats \X Dates : summary_logs[k] <= DAILY_LIMIT

----------------------------------------------------------------------------
(* Claims about the scheduler *)

\* C5: a processSchedule execution for a due schedule whose chat has a
\* stored message in the schedule's window, in which neither the language
\* model nor the send failed, has fetched the chat's messages, called the
\* language model and sent the scheduled summary by the time it ends.
C5_DueScheduleIsSummarised ==
  (lastRun.id # 0 /\ lastRun.hadMessages
     /\ lastRun.error \notin {"llm", "delivery", "delivery_permanent"}) =>
    (lastRun.fetched /\ lastRun.llmCalls >= 1 /\ lastRun.sent)

\* C6: a processSchedule execution that failed for a reason other than a
\* permanent delivery error has persisted a recomputed, later next_run
\* when it ends.
C6_FailedRunIsRescheduled ==
  (lastRun.id # 0 /\ lastRun.error \in {"input", "llm", "delivery"}
     /\ lastRun.rowActive # Undefined) =>
    (lastRun.updated /\ lastRun.nextRunAfter > lastRun.nextRunBefore)

C10_StartStopIdempotent ==
  /\ Cardinality(liveTimers) <= 1
  /\ isRunning <=> liveTimers # {}
  /\ intervalId # 0 => liveTimers = {intervalId}
  /\ (lastCall.op = "start" /\ lastCall.wasRunning) =>
       (lastCall.newTimers = 0 /\ lastCall.newTicks = 0 /\ ~lastCall.changed)
  /\ (lastCall.op = "stop" /\ ~lastCall.wasRunning) => ~lastCall.changed
  /\ lastCall.op = "stop" => (liveTimers = {} /\ ~isRunning)

C10_Witness ==
  /\ lastCall.op = "start"
  /\ lastCall.wasRunning
  /\ Cardinality(liveTimers) = 1
  /\ TicksInFlight # {}

----------------------------------------------------------------------------
(* Claims about SummaryService *)

\* C11: a generateSummary call on an empty or missing message list has
\* returned null, has called the language model zero times and has written
\* no file.
C11_EmptyInputIsNoContent ==
  \A g \in Gens :
    (gen[g].pc # "idle" /\ gen[g].mode # "fallback" /\ Len(gen[g].input) = 0) =>
      /\ gen[g].pc = "done"
      /\ gen[g].result = "null"
      /\ gen[g].calls = <<>>
      /\ gen[g].wrote = 0
      /\ files = {}

C11_Witness ==
  gen[1].pc = "done" /\ gen[1].input = <<>> /\ gen[1].result = "null"

\* C12: a generateSummary call on at least one message is in chunked mode
\* exactly when there are more than 100 messages or the transcript has more
\* than 4 * 3000 characters (its token estimate exceeds 3000); otherwise it
\* is in direct mode and its only language-model call is the direct one.
C12_ModeChoice ==
  \A g \in Gens :
    (gen[g].pc # "idle" /\ gen[g].mode # "fallback" /\ Len(gen[g].input) >= 1) =>
      /\ gen[g].mode \in {"direct", "chunked"}
      /\ gen[g].mode = "chunked" <=>
           \/ Len(gen[g].input) > 100
           \/ JoinedLength(formatMessagesForAI(gen[g].input)) > 4 * 3000
      /\ gen[g].mode = "direct" =>
           (Len(gen[g].calls) = 1 /\ gen[g].calls[1].kind = "direct")

\* chunked because of the token estimate alone: 34 lines, 12001 characters
C12_Witness ==
  /\ gen[1].mode = "chunked"
  /\ Len(gen[1].input) = 34
  /\ JoinedLength(formatMessagesForAI(gen[1].input)) = 12001

\* C13: a chunked generateSummary call in which every language-model call
\* succeeded made one chunk call per chunk, in chunk order, for
\* ceil(L / 100) chunks of 100 messages (the last one holds the rest), then
\* one synthesis call if there was more than one chunk and none otherwise.
C13_ChunkedCalls ==
  \A g \in Gens :
    (gen[g].mode = "chunked" /\ gen[g].result = "summary") =>
      LET L == Len(gen[g].input)
          n == (L + 99) \div 100
      IN /\ Len(gen[g].calls) = n + (IF n > 1 THEN 1 ELSE 0)
         /\ \A k \in 1..n :
              gen[g].calls[k] =
                [kind |-> "chunk", index |-> k,
                 size |-> IF k < n THEN 100 ELSE L - 100 * (n - 1)]
         /\ n > 1 => gen[g].calls[n + 1].kind = "final"

C13_Witness ==
  /\ gen[1].mode = "chunked"
  /\ gen[1].result = "summary"
  /\ Len(gen[1].input) = 250
  /\ Len(gen[1].calls) = 4
  /\ gen[1].calls[3].size = 50

RECURSIVE Concatenation(_)
Concatenation(chunks) ==
  IF chunks = <<>> THEN <<>> ELSE Head(chunks) \o Concatenation(Tail(chunks))

\* C14: chunkMessages(messages, 100) returns ceil(L / 100) chunks, each with
\* 1 to 100 messages, whose concatenation in order is the array it was given.
C14_ChunksPartitionInput ==
  \A g \in Gens :
    LET chunks == chunkMessages(gen[g].input, 100) IN
      /\ Len(chunks) = (Len(gen[g].input) + 99) \div 100
      /\ \A k \in 1..Len(chunks) : Len(chunks[k]) >= 1 /\ Len(chunks[k]) <= 100
      /\ Concatenation(chunks) = gen[g].input
      /\ gen[g].mode = "chunked" => gen[g].chunks = chunks

C14_Witness ==
  /\ gen[1].mode = "chunked"
  /\ Len(gen[1].input) = 250
  /\ Len(gen[1].chunks) = 3
  /\ Len(gen[1].chunks[3]) = 50

C16_OtherErrorIsRaised ==
  \A g \in Gens :
    (gen[g].pc = "done" /\ gen[g].failed = "other") =>
      (gen[g].result = "throw" /\ gen[g].wrote = 0)

\* C17: two generateTextFileFallback calls on the same input that both
\* returned their notice have left two files, one written by each.
C17_FallbackFilesAreDistinct ==
  \A g1, g2 \in Gens :
    (g1 # g2 /\ gen[g1].result = "notice" /\ gen[g2].result = "notice") =>
      /\ gen[g1].filename # gen[g2].filename
      /\ \E f1, f2 \in files : f1.by = g1 /\ f2.by = g2

----------------------------------------------------------------------------
(* Claims about the next-run computations *)

\* C18: for a daily schedule in UTC, the next-run time computed at 08:00 and
\* the one computed at 10:00 are at least 24 hours after the computation, at
\* creation and after a firing.
C18_DailyAtLeastOneDayAhead ==
  (computed.fn # "none" /\ computed.scheduleType = "daily" /\ computed.timezone = "UTC"
     /\ LocalHour(computed.t, "UTC") \in {8, 10}) =>
    computed.result - computed.t >= 24

\* C19: every next-run time computed for a daily or weekly schedule, at
\* creation or after a firing, is later than the computation and is 09:00
\* in the chat's timezone, on a Sunday for a weekly schedule.
C19_NextRunIsFutureNineOClock ==
  (computed.fn # "none" /\ computed.scheduleType \in {"daily", "weekly"}) =>
    /\ computed.result > computed.t
    /\ LocalHour(computed.result, computed.timezone) = 9
    /\ computed.scheduleType = "weekly" => LocalDay(computed.result, computed.timezone) = 0

\* a weekly schedule created on a Sunday after 09:00 local time, in Tokyo
C19_Witness ==
  /\ computed.fn = "calculateNextScheduleTime"
  /\ computed.scheduleType = "weekly"
  /\ computed.timezone = "Asia/Tokyo"
  /\ LocalDay(computed.t, computed.timezone) = 0
  /\ LocalHour(computed.t, computed.timezone) > 9
  /\ computed.result = computed.t - LocalHour(computed.t, computed.timezone) + 9 + 168

\* C20: the next-run time computed after a weekly schedule fired is at least
\* 7 days after the firing.
C20_WeeklyAtLeastOneWeekAhead ==
  (computed.fn = "calculateNextRunTime" /\ computed.scheduleType = "weekly") =>
    computed.result - computed.t >= 168

\* C21: for a daily or weekly schedule, in every timezone and at every hour,
\* the next-run time computed at creation and the one computed after a firing
\* are the same timestamp.
C21_CreationAndRescheduleAgree ==
  (computed.fn # "none" /\ computed.scheduleType \in {"daily", "weekly"}) =>
    LET opt == CHOOSE o \in ScheduleOptions : o.scheduleType = computed.scheduleType
    IN  /\ computed.result = calculateNextScheduleTime(opt.scheduleType, opt.intervalHours,
                                                       computed.timezone, computed.t)
        /\ computed.result = calculateNextRunTime(opt.scheduleType, opt.intervalHours,
                                                  computed.timezone, computed.t)

----------------------------------------------------------------------------
(* Claims about parseTimePeriod *)

\* C22: for a period token <N><unit> with unit h, d or w, the window that
\* parseTimePeriod returns ends at the current time and is exactly
\* N * 3600, N * 86400 or N * 604800 seconds long.
C22_DurationWindowIsExact ==
  (computed.fn = "parseTimePeriod" /\ computed.given /\ MatchesDuration(computed.period)) =>
    LET n == NumberIn(SubSeq(computed.period, 1, Len(computed.period) - 1), 10)
        unit == computed.period[Len(computed.period)]
    IN  /\ computed.result.end = unix(computed.reads[1])
        /\ computed.result.end - computed.result.start = n * UnitSeconds(unit)

\* C23: the window that parseTimePeriod returns for 'yesterday' starts at the
\* first second and ends at the last second of the day before the current
\* day, the current day being the day of one of the call's clock reads.
C23_YesterdayIsTheDayBefore ==
  (computed.fn = "parseTimePeriod" /\ computed.given /\ computed.period = Yesterday) =>
    \E i \in 1..3 :
      LET today == startOfDay(computed.reads[i])
      IN  /\ computed.result.start = unix(today - DayMs)
          /\ computed.result.end = unix(today) - 1

\* a period token that is absent, empty or, lower-cased, none of 'today',
\* 'yesterday' and <N><h|d|w>
Unparseable(given, str) ==
  \/ ~given
  \/ str = <<>>
  \/ /\ toLowerCase(str) \notin {Today, Yesterday}
     /\ ~MatchesDuration(toLowerCase(str))

\* C24: for a period token that is absent, empty or not recognised,
\* parseTimePeriod returns the start, end and description it returns for
\* '24h' at the same clock reads.
C24_UnparseableIsLastDay ==
  (computed.fn = "parseTimePeriod" /\ Unparseable(computed.given, computed.period)) =>
    computed.result = parseTimePeriodAt(TRUE, DefaultPeriod, computed.reads)

\* the token 'week' gave the 24 hours before the call, described as 'Last 24h'
C24_Witness ==
  /\ computed.fn = "parseTimePeriod"
  /\ computed.given
  /\ computed.period = <<"w", "e", "e", "k">>
  /\ computed.reads[2] = computed.reads[1]
  /\ computed.result.end - computed.result.start = DaySeconds
  /\ computed.result.description = [text |-> "Last", amount |-> 24, unit |-> "h"]

----------------------------------------------------------------------------
(* Claims about the configuration commands *)

\* the text is a decimal number
IsNumber(text) == text # <<>> /\ \A i \in 1..Len(text) : text[i] \in Digits

\* C25: a /length command of an administrator whose value is not a number
\* or is outside 200..5000 is rejected and leaves the stored state as it
\* was; a value inside 200..5000 is stored as the chat's summary_length.
C25_LengthIsValidated ==
  (lastCommand.cmd = "length" /\ lastCommand.given /\ isAdmin(lastCommand.from)) =>
    IF IsNumber(lastCommand.text) /\ NumberIn(lastCommand.text, 10) \in 200..5000
    THEN /\ lastCommand.outcome = "stored"
         /\ getChatSettings(chat_settings, lastCommand.chatId).summary_length
              = NumberIn(lastCommand.text, 10)
    ELSE /\ lastCommand.outcome = "rejected"
         /\ ~lastCommand.changed

\* C26: a step of setChatLanguage, setSummaryLength or setChatTimezone sets
\* its own field of the chat's settings to the value given and leaves the
\* two other fields as getChatSettings gave them before the step (the
\* defaults en, 1500, UTC for a chat without a row), and leaves the other
\* chats' rows alone.
C26_UpdatesKeepOtherFields ==
  [][\A c \in Chats :
       LET before == getChatSettings(chat_settings, c)
           after == getChatSettings(chat_settings', c)
           op == lastCommand'.cmd
       IN  IF c # lastCommand'.chatId
           THEN chat_settings'[c] = chat_settings[c]
           ELSE /\ op = "setChatLanguage" =>
                     /\ after.language = lastCommand'.arg
                     /\ after.summary_length = before.summary_length
                     /\ after.timezone = before.timezone
                /\ op = "setSummaryLength" =>
                     /\ after.summary_length = lastCommand'.length
                     /\ after.language = before.language
                     /\ after.timezone = before.timezone
                /\ op = "setChatTimezone" =>
                     /\ after.timezone = lastCommand'.arg
                     /\ after.language = before.language
                     /\ after.summary_length = before.summary_length]_vars

\* setSummaryLength on a row whose language and timezone were set before
C26_Witness ==
  /\ lastCommand.cmd = "setSummaryLength"
  /\ lastCommand.chatId = 1
  /\ chat_settings[1] = [language |-> "es", summary_length |-> 200, timezone |-> "Asia/Tokyo"]
  /\ chat_settings[2] = NoRow

ConfigurationCommands == {"language", "length", "timezone", "schedule"}

\* the sender is the chat's creator or an administrator, or BOT_OWNER_ID
\* lists the sender
Privileged(from) ==
  \/ from.status \in {"creator", "administrator"}
  \/ isBotOwner(BOT_OWNER_ID, from.id)

C28_EmptyOwnerListAllowsAnyone ==
  (lastCommand.cmd \in ConfigurationCommands
     /\ (~BOT_OWNER_ID.set \/ BOT_OWNER_ID.value = <<>>)) =>
    lastCommand.outcome # "denied"

----------------------------------------------------------------------------
(* Claims about the period of a scheduled summary *)

\* C29: a processSchedule execution for a due schedule whose chat has no
\* message in the schedule's window has sent nothing, met no error, and has
\* stored a later next_run on the row, which is still active.
C29_EmptyWindowIsSkippedAndRescheduled ==
  (lastRun.id # 0 /\ ~lastRun.hadMessages /\ lastRun.rowActive # Undefined) =>
    /\ ~lastRun.sent
    /\ lastRun.error = "none"
    /\ lastRun.updated
    /\ lastRun.nextRunAfter > lastRun.nextRunBefore
    /\ lastRun.rowActive = 1

\* C30: the schedule that /schedule daily, 3days or weekly stored resolves,
\* through getSchedulePeriod of its schedule_type, to the period token 24h,
\* 3d or 1w.
C30_StoredScheduleResolvesItsPeriod ==
  (lastCommand.cmd = "schedule" /\ lastCommand.outcome = "stored") =>
    \A r \in getActiveSchedules(schedules, lastCommand.chatId) :
      getSchedulePeriod(r.schedule_type) =
        CASE lastCommand.arg = "daily" -> "24h"
          [] lastCommand.arg = "3days" -> "3d"
          [] lastCommand.arg = "weekly" -> "1w"

----------------------------------------------------------------------------
(* Claims about failures of a scheduled job *)

\* what processSchedule does with the outcome of a generateSummary call that
\* reached the language model
AfterService(c) ==
  AfterGenerate([IdleTick EXCEPT !.run.llmCalls = Len(c.calls)],
                IF c.result = "throw" THEN "rejected" ELSE "text")

----------------------------------------------------------------------------
(* Claims about deactivated and deleted schedules *)

\* C32: a row that deactivateSchedule has set inactive is returned neither
\* by getPendingSchedules nor by getActiveSchedules; no call, an
\* updateScheduleNextRun for its id included, makes a row with that id active
\* again; and a chat without an active schedule gets one only by a
\* createSchedule for that chat that completed.
C32_InactiveStaysInactive ==
  /\ [](\A r \in schedules :
          r.is_active = 0 =>
            /\ r \notin getPendingSchedules(schedules, now)
            /\ r \notin getActiveSchedules(schedules, r.chat_id))
  /\ [][\A r \in schedules :
          r.is_active = 0 => \A s \in schedules' : s.id = r.id => s.is_active = 0]_vars
  /\ [][\A c \in Chats :
          (getActiveSchedules(schedules, c) = {}
             /\ getActiveSchedules(schedules', c) # {}) =>
            (hist'.op = "createSchedule" /\ hist'.chatId = c /\ hist'.ok)]_vars

\* a deactivated row whose next_run an updateScheduleNextRun has moved into
\* the past of the clock: it is due by its time and still inactive
C32_Witness ==
  /\ hist.op = "updateScheduleNextRun"
  /\ \E r \in schedules :
       /\ r.is_active = 0
       /\ r.next_run <= now
       /\ r.next_run > StartHour + 1

\* C37: when a createSchedule call is rejected by its settings read or by
\* its INSERT, the schedule that the chat had when the call was made (the one
\* stored by the createSchedule for the same chat that completed just before,
\* calls running one at a time) is still present and active with its type
\* and interval.
C37_CreateScheduleIsAllOrNothing ==
  [][\A p \in Callers :
       (call[p].pc \in {"settings", "insert"} /\ call'[p].pc = "idle"
          /\ hist'.op = "createSchedule" /\ ~hist'.ok
          /\ hist.op = "createSchedule" /\ hist.ok /\ hist.chatId = call[p].chatId) =>
         \E r \in getActiveSchedules(schedules', call[p].chatId) :
           /\ r.schedule_type = hist.scheduleType
           /\ r.interval_hours = hist.intervalHours]_vars

\* C36: after a deleteSchedule for a chat has completed, the chat has no
\* row, active or not, and nothing of it is pending; and a chat without a
\* row gets one only by a createSchedule for that chat that completed: an
\* updateScheduleNextRun or deactivateSchedule for the id of the deleted row
\* neither creates nor reactivates a row.
C36_DeletedStaysDeleted ==
  /\ [](hist.op = "deleteSchedule" =>
          /\ \A r \in schedules : r.chat_id # hist.chatId
          /\ \A r \in getPendingSchedules(schedules, MaxNow) : r.chat_id # hist.chatId)
  /\ [][\A c \in Chats :
          ((\A r \in schedules : r.chat_id # c)
             /\ (\E r \in schedules' : r.chat_id = c)) =>
            (hist'.op = "createSchedule" /\ hist'.chatId = c /\ hist'.ok)]_vars
  /\ [][(hist'.op \in {"updateScheduleNextRun", "deactivateSchedule"} /\ call' = call) =>
          { r.id : r \in schedules' } = { r.id : r \in schedules }]_vars

\* every row that was ever stored has been deleted, and an
\* updateScheduleNextRun for an id completed afterwards
C36_Witness ==
  /\ hist.op = "updateScheduleNextRun"
  /\ nextId > 1
  /\ schedules = {}
  /\ NoCallInFlight

----------------------------------------------------------------------------
(* Claims about the transcript handed to the language model *)

\* the messages of a list whose trimmed text is non-empty and has no marker
Summarisable(msgs) ==
  SelectSeq(msgs, LAMBDA msg : trim(msg.text) # <<>> /\ ~includes(msg.text, Marker))

\* C33: the output of formatMessagesForAI has exactly one line for each
\* input message whose trimmed text is non-empty and does not contain
\* #ChatSummary, in the order of the input, and no other line.
C33_OneLinePerSummarisableMessage ==
  computed.fn = "formatMessagesForAI" =>
    LET expected == Summarisable(computed.messages)
        lines == Lines(computed.result)
    IN  /\ Len(lines) = Len(expected)
        /\ \A i \in 1..Len(lines) : lines[i] = FormattedMessage(expected[i])

----------------------------------------------------------------------------
(* Claims about one /summary request *)

\* C34: a handleSummary request that went on after the quota check has
\* raised the count of its chat and date by exactly one before it fetched
\* messages or called the language model; a count changes only by such a
\* step, by one, and no count of another chat or date changes with it, so no
\* count ever goes down, whatever the request meets afterwards.
C34_IncrementIsExactAndFirst ==
  /\ [](\A r \in Reqs :
          (req[r].fetched \/ req[r].llmCalls > 0 \/ req[r].pc \in {"messages", "llm"}) =>
            req[r].incremented = 1)
  /\ [][\A k \in Chats \X Dates :
          \/ summary_logs'[k] = summary_logs[k]
          \/ /\ summary_logs'[k] = summary_logs[k] + 1
             /\ \A j \in (Chats \X Dates) \ {k} : summary_logs'[j] = summary_logs[j]
             /\ \E r \in Reqs :
                  /\ req[r].pc = "increment"
                  /\ req'[r].pc = "messages"
                  /\ k = <<req[r].chatId, req[r].today>>
                  /\ ~req[r].fetched
                  /\ req[r].llmCalls = 0]_vars

\* a request whose generation failed after the count went from its
\* dailyCount to one more
C34_Witness ==
  \E r \in Reqs :
    /\ req[r].pc = "idle"
    /\ req[r].incremented = 1
    /\ req[r].llmCalls = 1
    /\ req[r].sent = "error"
    /\ summary_logs[<<req[r].chatId, req[r].today>>] = req[r].dailyCount + 1

\* C35: a /summary request that ended has sent exactly one message to the
\* chat: the limit notice, the no-messages notice, the summary (or the
\* fallback notice in its place), or one error notice when an awaited call
\* was rejected; a request in flight has sent none.
C35_ExactlyOneMessage ==
  \A r \in Reqs :
    /\ (req[r].pc = "idle" /\ req[r].chatId # 0) =>
         /\ req[r].sends = 1
         /\ req[r].sent \in {"limit", "noMessages", "summary", "fallback", "error"}
    /\ req[r].pc # "idle" => (req[r].sends = 0 /\ req[r].sent = "none")

\* the message fetch of a request was rejected after the increment: the
\* request ended with the error notice
C35_Witness ==
  \E r \in Reqs :
    /\ req[r].pc = "idle"
    /\ req[r].sent = "error"
    /\ req[r].incremented = 1
    /\ ~req[r].fetched
    /\ req[r].sends = 1

----------------------------------------------------------------------------
(* Claims about the number of language-model calls *)

\* Math.ceil(n / d)
CeilDiv(n, d) == (n + d - 1) \div d

\* C38: in one generateSummary call for L messages, a failed chunk, direct
\* or synthesis call is the last language-model call of that generateSummary
\* call, and the calls never number more than ceil(L / 100) + 1.
C38_ModelCallsAreBounded ==
  /\ [](\A g \in Gens :
          /\ Len(gen[g].calls) <= CeilDiv(Len(gen[g].input), MAX_MESSAGES_PER_CHUNK) + 1
          /\ gen[g].failed # "none" => gen[g].pc \notin {"direct", "chunk", "final"})
  /\ [][\A g \in Gens :
          gen[g].failed # "none" => gen'[g].calls = gen[g].calls]_vars

\* the second of three chunk calls failed: two calls were made, and the
\* fallback ran
C38_Witness ==
  \E g \in Gens :
    /\ gen[g].mode = "chunked"
    /\ Len(gen[g].chunks) = 3
    /\ gen[g].failed # "none"
    /\ Len(gen[g].calls) = 2
    /\ gen[g].pc = "done"

----------------------------------------------------------------------------
(* Claims about incoming messages *)

\* the message of the last handleMessage call has a text that does not
\* start with a slash and is at most 24 hours old
Storable(c) ==
  /\ c.given /\ c.text # <<>> /\ c.text[1] # "/"
  /\ c.at - c.date * SecondMs <= DaySeconds * SecondMs

\* C39: handleMessage stores the message exactly when it has a text, the
\* text does not start with '/', and the message is at most 24 hours old
\* (and the storage accepts it); any other message leaves the table as it
\* was; a rejected saveMessage is swallowed, and no call raises.
C39_StoresExactlyFreshTextMessages ==
  computed.fn = "handleMessage" =>
    /\ computed.outcome = "stored" <=> (Storable(computed) /\ computed.saveOk)
    /\ computed.outcome = "stored" =>
         [chat_id |-> computed.chatId, timestamp |-> computed.date] \in messages
    /\ ~Storable(computed) => (computed.outcome = "skipped" /\ ~computed.changed)
    /\ (Storable(computed) /\ ~computed.saveOk) =>
         (computed.outcome = "swallowed" /\ ~computed.changed)
    /\ computed.outcome \in {"skipped", "stored", "swallowed"}

\* a text message that is exactly 24 hours old was stored
C39_Witness ==
  /\ computed.fn = "handleMessage"
  /\ computed.at - computed.date * SecondMs = DaySeconds * SecondMs
  /\ computed.text = <<"a", "/">>
  /\ computed.outcome = "stored"
  /\ computed.changed

====
